---- MODULE Spec2Model ----
(***************************************************************************)
(* A model of the mid-end of the SSA compiler: the IR (src/ssa/cfg.py),    *)
(* the dominator tree (src/ssa/dominance.py) and the optimisation passes   *)
(* SCCP, LICM and DCE (src/optimizations), run over SSA-form CFGs that     *)
(* CFGBuilder + SSABuilder produce for a corpus of source programs.        *)
(***************************************************************************)
EXTENDS Integers, Sequences, FiniteSets, TLC

(***************************************************************************)
(* IR model (src/ssa/cfg.py)                                               *)
(***************************************************************************)
\* SSAVariable.base_pointer = None
NoBase == <<>>

\* SSAVariable(name, base_pointer=None, version)
Var(n, v) == [kind |-> "var", name |-> n, version |-> v, base_pointer |-> NoBase, value |-> 0]

\* SSAVariable(name, base_pointer, version)
Ptr(n, v, bp) == [kind |-> "var", name |-> n, version |-> v, base_pointer |-> bp, value |-> 0]

\* SSAConstant(value)
Const(c) == [kind |-> "const", name |-> "", version |-> 0, base_pointer |-> NoBase, value |-> c]

\* the absent value (None) of an instruction field
NoValue == [kind |-> "none", name |-> "", version |-> 0, base_pointer |-> NoBase, value |-> 0]

\* SSAVariable.as_tuple
as_tuple(v) == <<v.name, v.version>>

OpBinary(t, l, r) == [type |-> "binary", opr |-> t, args |-> <<l, r>>]

OpUnary(t, v) == [type |-> "unary", opr |-> t, args |-> <<v>>]

OpLoad(a) == [type |-> "load", opr |-> "", args |-> <<a>>]

OpCall(f, as) == [type |-> "call", opr |-> f, args |-> as]

\* an Assign whose right-hand side is a plain SSAValue
OpValue(v) == [type |-> "value", opr |-> "", args |-> <<v>>]

NoOperation == [type |-> "none", opr |-> "", args |-> <<>>]

\* Instructions compare by identity (dataclass(eq=False)): id is the identity.
Assign(i, l, r) == [op |-> "assign", id |-> i, lhs |-> l, rhs |-> r, args |-> <<>>, targets |-> <<>>, index |-> 0]

Cmp(i, l, r, t, e) == [op |-> "cmp", id |-> i, lhs |-> NoValue, rhs |-> NoOperation, args |-> <<l, r>>, targets |-> <<t, e>>, index |-> 0]

UncondJump(i, t) == [op |-> "jmp", id |-> i, lhs |-> NoValue, rhs |-> NoOperation, args |-> <<>>, targets |-> <<t>>, index |-> 0]

Return(i, vs) == [op |-> "return", id |-> i, lhs |-> NoValue, rhs |-> NoOperation, args |-> vs, targets |-> <<>>, index |-> 0]

ArrayInit(i, l) == [op |-> "array_init", id |-> i, lhs |-> l, rhs |-> NoOperation, args |-> <<>>, targets |-> <<>>, index |-> 0]

Store(i, a, v) == [op |-> "store", id |-> i, lhs |-> NoValue, rhs |-> NoOperation, args |-> <<a, v>>, targets |-> <<>>, index |-> 0]

GetArgument(i, l, n) == [op |-> "getarg", id |-> i, lhs |-> l, rhs |-> NoOperation, args |-> <<>>, targets |-> <<>>, index |-> n]

\* InstPhi(lhs, rhs): rhs is the ordered map predecessor label -> value
Phi(i, l, r) == [op |-> "phi", id |-> i, lhs |-> l, rhs |-> r]

BasicBlock(ph, ins, ps, ss) == [phi_nodes |-> ph, instructions |-> ins, preds |-> ps, succ |-> ss]

CFG(en, ex, bs) == [entry |-> en, exit |-> ex, blocks |-> bs]

(***************************************************************************)
(* The corpus: SSA-form CFGs as CFGBuilder + SSABuilder build them          *)
(***************************************************************************)
\* ---- corpus begin ----
\* test_zero_mult (tests/test_sccp.py):
\*   func main() -> int { let a int = input(); let b int = 0; let c int = a *
\*    b; let d int = b * a; return c + d; } func input() -> int { return 0; }
ProgZeroMult ==
    CFG(0, 1,
        0 :> BasicBlock(<<>>,
            <<Assign(1, Var("a", 1), OpCall("input", <<>>)), Assign(2, Var("b", 1), OpValue(Const(0))), Assign(3, Var("c", 1), OpBinary("*", Var("a", 1), Var("b", 1))), Assign(4, Var("d", 1), OpBinary("*", Var("b", 1), Var("a", 1))), Assign(5, Var("%4", 1), OpBinary("+", Var("c", 1), Var("d", 1))), Return(6, <<Var("%4", 1)>>)>>,
            <<>>, <<1>>) @@
        1 :> BasicBlock(<<>>,
            <<>>,
            <<0>>, <<>>))

\* test_tail_dominance_dominance_with_redefinition (tests/test_sccp_licm.py):
\*   func main() -> int { let v int = 0; for (let i int = 0; 1; i = i + 1) {
\*    if (foo()) { v = 2; break; } v = 3; } return v; } func foo() -> int {
\*    return 42; }
ProgTailDominance ==
    CFG(0, 1,
        0 :> BasicBlock(<<>>,
            <<Assign(1, Var("v", 1), OpValue(Const(0))), UncondJump(2, 2)>>,
            <<>>, <<2>>) @@
        1 :> BasicBlock(<<>>,
            <<>>,
            <<7>>, <<>>) @@
        2 :> BasicBlock(<<>>,
            <<Assign(3, Var("i", 1), OpValue(Const(0))), Cmp(4, Const(1), Const(0), 7, 3)>>,
            <<0>>, <<3, 7>>) @@
        3 :> BasicBlock(<<>>,
            <<UncondJump(5, 4)>>,
            <<2>>, <<4>>) @@
        4 :> BasicBlock(<<Phi(6, Var("i", 2), <<<<3, Var("i", 1)>>, <<5, Var("i", 3)>>>>)>>,
            <<Assign(7, Var("%1", 1), OpCall("foo", <<>>)), Cmp(8, Var("%1", 1), Const(0), 9, 8)>>,
            <<3, 5>>, <<9, 8>>) @@
        5 :> BasicBlock(<<>>,
            <<Assign(9, Var("i", 3), OpBinary("+", Var("i", 2), Const(1))), Cmp(10, Const(1), Const(0), 6, 4)>>,
            <<9>>, <<4, 6>>) @@
        6 :> BasicBlock(<<Phi(11, Var("v", 3), <<<<8, Var("v", 4)>>, <<5, Var("v", 5)>>>>)>>,
            <<UncondJump(12, 7)>>,
            <<8, 5>>, <<7>>) @@
        7 :> BasicBlock(<<Phi(13, Var("v", 2), <<<<2, Var("v", 1)>>, <<6, Var("v", 3)>>>>)>>,
            <<Return(14, <<Var("v", 2)>>)>>,
            <<2, 6>>, <<1>>) @@
        8 :> BasicBlock(<<>>,
            <<Assign(15, Var("v", 4), OpValue(Const(2))), UncondJump(16, 6)>>,
            <<4>>, <<6>>) @@
        9 :> BasicBlock(<<>>,
            <<Assign(17, Var("v", 5), OpValue(Const(3))), UncondJump(18, 5)>>,
            <<4>>, <<5>>))

\* test_array_load_move (tests/test_licm.py):
\*   func main() -> int { let a [10]int = {}; let x int = 0; for (let i int =
\*    0; i < 10; i = i + 1) { a[i] = i; x = a[5]; } return x; }
ProgArrayLoadMove ==
    CFG(0, 1,
        0 :> BasicBlock(<<>>,
            <<ArrayInit(1, Ptr("a", 1, <<"a", 1>>)), Assign(2, Var("x", 1), OpValue(Const(0))), UncondJump(3, 2)>>,
            <<>>, <<2>>) @@
        1 :> BasicBlock(<<>>,
            <<>>,
            <<7>>, <<>>) @@
        2 :> BasicBlock(<<>>,
            <<Assign(4, Var("i", 1), OpValue(Const(0))), Assign(5, Var("%0", 1), OpBinary("<", Var("i", 1), Const(10))), Cmp(6, Var("%0", 1), Const(0), 7, 3)>>,
            <<0>>, <<3, 7>>) @@
        3 :> BasicBlock(<<>>,
            <<UncondJump(7, 4)>>,
            <<2>>, <<4>>) @@
        4 :> BasicBlock(<<Phi(8, Var("i", 2), <<<<3, Var("i", 1)>>, <<5, Var("i", 3)>>>>), Phi(9, Var("%5", 1), <<<<5, Var("%5", 2)>>>>)>>,
            <<Assign(10, Var("%4", 1), OpBinary("*", Var("i", 2), Const(1))), Assign(11, Ptr("%5", 2, <<"a", 1>>), OpBinary("+", Ptr("a", 1, <<"a", 1>>), Var("%4", 1))), Store(12, Ptr("%5", 2, <<"a", 1>>), Var("i", 2)), Assign(13, Var("%9", 1), OpBinary("*", Const(5), Const(1))), Assign(14, Ptr("%10", 1, <<"a", 1>>), OpBinary("+", Ptr("a", 1, <<"a", 1>>), Var("%9", 1))), Assign(15, Var("x", 3), OpLoad(Ptr("%10", 1, <<"a", 1>>))), UncondJump(16, 5)>>,
            <<3, 5>>, <<5>>) @@
        5 :> BasicBlock(<<>>,
            <<Assign(17, Var("i", 3), OpBinary("+", Var("i", 2), Const(1))), Assign(18, Var("%13", 1), OpBinary("<", Var("i", 3), Const(10))), Cmp(19, Var("%13", 1), Const(0), 6, 4)>>,
            <<4>>, <<4, 6>>) @@
        6 :> BasicBlock(<<>>,
            <<UncondJump(20, 7)>>,
            <<5>>, <<7>>) @@
        7 :> BasicBlock(<<Phi(21, Var("x", 2), <<<<2, Var("x", 1)>>, <<6, Var("x", 3)>>>>)>>,
            <<Return(22, <<Var("x", 2)>>)>>,
            <<2, 6>>, <<1>>))

\* test_live_array (tests/test_dce.py):
\*   func main() -> int { let arr [10]int = {}; if (1) { arr[0] = 1; } return
\*    arr[1]; }
ProgLiveArray ==
    CFG(0, 1,
        0 :> BasicBlock(<<>>,
            <<ArrayInit(1, Ptr("arr", 1, <<"arr", 1>>)), Cmp(2, Const(1), Const(0), 3, 2)>>,
            <<>>, <<3, 2>>) @@
        1 :> BasicBlock(<<>>,
            <<>>,
            <<3>>, <<>>) @@
        2 :> BasicBlock(<<>>,
            <<Assign(3, Var("%2", 1), OpBinary("*", Const(0), Const(1))), Assign(4, Ptr("%3", 1, <<"arr", 1>>), OpBinary("+", Ptr("arr", 1, <<"arr", 1>>), Var("%2", 1))), Store(5, Ptr("%3", 1, <<"arr", 1>>), Const(1)), UncondJump(6, 3)>>,
            <<0>>, <<3>>) @@
        3 :> BasicBlock(<<>>,
            <<Assign(7, Var("%8", 1), OpBinary("*", Const(1), Const(1))), Assign(8, Ptr("%9", 1, <<"arr", 1>>), OpBinary("+", Ptr("arr", 1, <<"arr", 1>>), Var("%8", 1))), Assign(9, Var("%5", 1), OpLoad(Ptr("%9", 1, <<"arr", 1>>))), Return(10, <<Var("%5", 1)>>)>>,
            <<0, 2>>, <<1>>))

\* test_loop_array_write (tests/test_dce.py):
\*   func main() -> int { let a [8]int = {}; for { foo(a); if (bar()) { a[5]
\*    = 10; } if (a[1] == 2) { break; } } return 0; } func bar() -> int {
\*    return 123; } func foo (a [8]int) -> void { }
ProgLoopArrayWrite ==
    CFG(0, 1,
        0 :> BasicBlock(<<>>,
            <<ArrayInit(1, Ptr("a", 1, <<"a", 1>>)), UncondJump(2, 2)>>,
            <<>>, <<2>>) @@
        1 :> BasicBlock(<<>>,
            <<>>,
            <<6>>, <<>>) @@
        2 :> BasicBlock(<<>>,
            <<UncondJump(3, 3)>>,
            <<0>>, <<3>>) @@
        3 :> BasicBlock(<<Phi(4, Var("%5", 1), <<<<4, Var("%5", 3)>>>>)>>,
            <<Assign(5, Var("%0", 1), OpCall("foo", <<Ptr("a", 1, <<"a", 1>>)>>)), Assign(6, Var("%2", 1), OpCall("bar", <<>>)), Cmp(7, Var("%2", 1), Const(0), 8, 7)>>,
            <<2, 4>>, <<8, 7>>) @@
        4 :> BasicBlock(<<>>,
            <<UncondJump(8, 3)>>,
            <<10>>, <<3>>) @@
        5 :> BasicBlock(<<>>,
            <<UncondJump(9, 6)>>,
            <<9>>, <<6>>) @@
        6 :> BasicBlock(<<>>,
            <<Return(10, <<Const(0)>>)>>,
            <<5>>, <<1>>) @@
        7 :> BasicBlock(<<>>,
            <<Assign(11, Var("%4", 1), OpBinary("*", Const(5), Const(1))), Assign(12, Ptr("%5", 2, <<"a", 1>>), OpBinary("+", Ptr("a", 1, <<"a", 1>>), Var("%4", 1))), Store(13, Ptr("%5", 2, <<"a", 1>>), Const(10)), UncondJump(14, 8)>>,
            <<3>>, <<8>>) @@
        8 :> BasicBlock(<<Phi(15, Var("%5", 3), <<<<3, Var("%5", 1)>>, <<7, Var("%5", 2)>>>>)>>,
            <<Assign(16, Var("%11", 1), OpBinary("*", Const(1), Const(1))), Assign(17, Ptr("%12", 1, <<"a", 1>>), OpBinary("+", Ptr("a", 1, <<"a", 1>>), Var("%11", 1))), Assign(18, Var("%8", 1), OpLoad(Ptr("%12", 1, <<"a", 1>>))), Assign(19, Var("%7", 1), OpBinary("==", Var("%8", 1), Const(2))), Cmp(20, Var("%7", 1), Const(0), 10, 9)>>,
            <<3, 7>>, <<10, 9>>) @@
        9 :> BasicBlock(<<>>,
            <<UncondJump(21, 5)>>,
            <<8>>, <<5>>) @@
        10 :> BasicBlock(<<>>,
            <<UncondJump(22, 4)>>,
            <<8>>, <<4>>))

\* test_dce_args (tests/test_dce.py):
\*   func main(A [64][64]int, b [64]int, x [64]int) -> int { A[1][1] = 1;
\*    return 0; }
ProgDceArgs ==
    CFG(0, 1,
        0 :> BasicBlock(<<>>,
            <<GetArgument(1, Ptr("A", 1, <<"A", 1>>), 0), GetArgument(2, Ptr("b", 1, <<"b", 1>>), 1), GetArgument(3, Ptr("x", 1, <<"x", 1>>), 2), Assign(4, Var("%1", 1), OpBinary("*", Const(1), Const(64))), Assign(5, Var("%3", 1), OpBinary("*", Const(1), Const(1))), Assign(6, Var("%4", 1), OpBinary("+", Var("%1", 1), Var("%3", 1))), Assign(7, Ptr("%5", 1, <<"A", 1>>), OpBinary("+", Ptr("A", 1, <<"A", 1>>), Var("%4", 1))), Store(8, Ptr("%5", 1, <<"A", 1>>), Const(1)), Return(9, <<Const(0)>>)>>,
            <<>>, <<1>>) @@
        1 :> BasicBlock(<<>>,
            <<>>,
            <<0>>, <<>>))

\* test_dead_binary_operations (tests/test_dce.py):
\*   func main() -> int { let a int = input(); let b int = input(); let c int
\*    = a + b; let d int = a * b; let e int = a - b; let f int = a / b; let g
\*    int = a % b; return 0; } func input() -> int { return 42; }
ProgDeadBinaryOperations ==
    CFG(0, 1,
        0 :> BasicBlock(<<>>,
            <<Assign(1, Var("a", 1), OpCall("input", <<>>)), Assign(2, Var("b", 1), OpCall("input", <<>>)), Assign(3, Var("c", 1), OpBinary("+", Var("a", 1), Var("b", 1))), Assign(4, Var("d", 1), OpBinary("*", Var("a", 1), Var("b", 1))), Assign(5, Var("e", 1), OpBinary("-", Var("a", 1), Var("b", 1))), Assign(6, Var("f", 1), OpBinary("/", Var("a", 1), Var("b", 1))), Assign(7, Var("g", 1), OpBinary("%", Var("a", 1), Var("b", 1))), Return(8, <<Const(0)>>)>>,
            <<>>, <<1>>) @@
        1 :> BasicBlock(<<>>,
            <<>>,
            <<0>>, <<>>))

\* test_dead_write_with_break (tests/test_dce.py):
\*   func main() -> int { let a [8]int = {}; for { foo(a); if (bar()) { a[5]
\*    = 10; break; } } return 0; } func bar() -> int { return 123; } func foo
\*    (a [8]int) -> void { }
ProgDeadWriteWithBreak ==
    CFG(0, 1,
        0 :> BasicBlock(<<>>,
            <<ArrayInit(1, Ptr("a", 1, <<"a", 1>>)), UncondJump(2, 2)>>,
            <<>>, <<2>>) @@
        1 :> BasicBlock(<<>>,
            <<>>,
            <<6>>, <<>>) @@
        2 :> BasicBlock(<<>>,
            <<UncondJump(3, 3)>>,
            <<0>>, <<3>>) @@
        3 :> BasicBlock(<<>>,
            <<Assign(4, Var("%0", 1), OpCall("foo", <<Ptr("a", 1, <<"a", 1>>)>>)), Assign(5, Var("%2", 1), OpCall("bar", <<>>)), Cmp(6, Var("%2", 1), Const(0), 8, 7)>>,
            <<2, 4>>, <<8, 7>>) @@
        4 :> BasicBlock(<<>>,
            <<UncondJump(7, 3)>>,
            <<8>>, <<3>>) @@
        5 :> BasicBlock(<<>>,
            <<UncondJump(8, 6)>>,
            <<7>>, <<6>>) @@
        6 :> BasicBlock(<<>>,
            <<Return(9, <<Const(0)>>)>>,
            <<5>>, <<1>>) @@
        7 :> BasicBlock(<<>>,
            <<Assign(10, Var("%4", 1), OpBinary("*", Const(5), Const(1))), Assign(11, Ptr("%5", 1, <<"a", 1>>), OpBinary("+", Ptr("a", 1, <<"a", 1>>), Var("%4", 1))), Store(12, Ptr("%5", 1, <<"a", 1>>), Const(10)), UncondJump(13, 5)>>,
            <<3>>, <<5>>) @@
        8 :> BasicBlock(<<>>,
            <<UncondJump(14, 4)>>,
            <<3>>, <<4>>))

\* test_continuous_simple (tests/test_dce.py):
\*   func main() -> int { let a [10]int = {}; a[0] = 1; foo(a); if (1) { a[2]
\*    = 3; } return 0; } func foo (a [10]int) -> void { }
ProgContinuousSimple ==
    CFG(0, 1,
        0 :> BasicBlock(<<>>,
            <<ArrayInit(1, Ptr("a", 1, <<"a", 1>>)), Assign(2, Var("%1", 1), OpBinary("*", Const(0), Const(1))), Assign(3, Ptr("%2", 1, <<"a", 1>>), OpBinary("+", Ptr("a", 1, <<"a", 1>>), Var("%1", 1))), Store(4, Ptr("%2", 1, <<"a", 1>>), Const(1)), Assign(5, Var("%4", 1), OpCall("foo", <<Ptr("a", 1, <<"a", 1>>)>>)), Cmp(6, Const(1), Const(0), 3, 2)>>,
            <<>>, <<3, 2>>) @@
        1 :> BasicBlock(<<>>,
            <<>>,
            <<3>>, <<>>) @@
        2 :> BasicBlock(<<>>,
            <<Assign(7, Var("%8", 1), OpBinary("*", Const(2), Const(1))), Assign(8, Ptr("%9", 1, <<"a", 1>>), OpBinary("+", Ptr("a", 1, <<"a", 1>>), Var("%8", 1))), Store(9, Ptr("%9", 1, <<"a", 1>>), Const(3)), UncondJump(10, 3)>>,
            <<0>>, <<3>>) @@
        3 :> BasicBlock(<<>>,
            <<Return(11, <<Const(0)>>)>>,
            <<0, 2>>, <<1>>))

\* test_interblock_propogation (tests/test_sccp.py):
\*   func main() -> int { let a int = 5; let b int = 10; if (a == 5) { b = a
\*    + 10; } return b; }
ProgInterblockPropagation ==
    CFG(0, 1,
        0 :> BasicBlock(<<>>,
            <<Assign(1, Var("a", 1), OpValue(Const(5))), Assign(2, Var("b", 1), OpValue(Const(10))), Assign(3, Var("%0", 1), OpBinary("==", Var("a", 1), Const(5))), Cmp(4, Var("%0", 1), Const(0), 3, 2)>>,
            <<>>, <<3, 2>>) @@
        1 :> BasicBlock(<<>>,
            <<>>,
            <<3>>, <<>>) @@
        2 :> BasicBlock(<<>>,
            <<Assign(5, Var("b", 2), OpBinary("+", Var("a", 1), Const(10))), UncondJump(6, 3)>>,
            <<0>>, <<3>>) @@
        3 :> BasicBlock(<<Phi(7, Var("b", 3), <<<<0, Var("b", 1)>>, <<2, Var("b", 2)>>>>)>>,
            <<Return(8, <<Var("b", 3)>>)>>,
            <<0, 2>>, <<1>>))

\* CFGBuilder._build_for_loop (src/ssa/cfg.py):
\*   func main() -> int { let x int = 0; for (let i int = 0; i < 1; i = i +
\*    1) { x = x + 2; } return x; }
ProgOneIterationLoop ==
    CFG(0, 1,
        0 :> BasicBlock(<<>>,
            <<Assign(1, Var("x", 1), OpValue(Const(0))), UncondJump(2, 2)>>,
            <<>>, <<2>>) @@
        1 :> BasicBlock(<<>>,
            <<>>,
            <<7>>, <<>>) @@
        2 :> BasicBlock(<<>>,
            <<Assign(3, Var("i", 1), OpValue(Const(0))), Assign(4, Var("%0", 1), OpBinary("<", Var("i", 1), Const(1))), Cmp(5, Var("%0", 1), Const(0), 7, 3)>>,
            <<0>>, <<3, 7>>) @@
        3 :> BasicBlock(<<>>,
            <<UncondJump(6, 4)>>,
            <<2>>, <<4>>) @@
        4 :> BasicBlock(<<Phi(7, Var("x", 3), <<<<3, Var("x", 1)>>, <<5, Var("x", 4)>>>>), Phi(8, Var("i", 2), <<<<3, Var("i", 1)>>, <<5, Var("i", 3)>>>>)>>,
            <<Assign(9, Var("x", 4), OpBinary("+", Var("x", 3), Const(2))), UncondJump(10, 5)>>,
            <<3, 5>>, <<5>>) @@
        5 :> BasicBlock(<<>>,
            <<Assign(11, Var("i", 3), OpBinary("+", Var("i", 2), Const(1))), Assign(12, Var("%7", 1), OpBinary("<", Var("i", 3), Const(1))), Cmp(13, Var("%7", 1), Const(0), 6, 4)>>,
            <<4>>, <<4, 6>>) @@
        6 :> BasicBlock(<<>>,
            <<UncondJump(14, 7)>>,
            <<5>>, <<7>>) @@
        7 :> BasicBlock(<<Phi(15, Var("x", 2), <<<<2, Var("x", 1)>>, <<6, Var("x", 4)>>>>)>>,
            <<Return(16, <<Var("x", 2)>>)>>,
            <<2, 6>>, <<1>>))

\* CFGBuilder._build_array_element_assignment (src/ssa/cfg.py):
\*   func main() -> int { let a [4]int = {}; let v int = input(); a[0] = v +
\*    1; return a[0]; } func input() -> int { return 0; }
ProgSameBlockStore ==
    CFG(0, 1,
        0 :> BasicBlock(<<>>,
            <<ArrayInit(1, Ptr("a", 1, <<"a", 1>>)), Assign(2, Var("v", 1), OpCall("input", <<>>)), Assign(3, Var("%1", 1), OpBinary("*", Const(0), Const(1))), Assign(4, Ptr("%2", 1, <<"a", 1>>), OpBinary("+", Ptr("a", 1, <<"a", 1>>), Var("%1", 1))), Assign(5, Var("%3", 1), OpBinary("+", Var("v", 1), Const(1))), Store(6, Ptr("%2", 1, <<"a", 1>>), Var("%3", 1)), Assign(7, Var("%9", 1), OpBinary("*", Const(0), Const(1))), Assign(8, Ptr("%10", 1, <<"a", 1>>), OpBinary("+", Ptr("a", 1, <<"a", 1>>), Var("%9", 1))), Assign(9, Var("%6", 1), OpLoad(Ptr("%10", 1, <<"a", 1>>))), Return(10, <<Var("%6", 1)>>)>>,
            <<>>, <<1>>) @@
        1 :> BasicBlock(<<>>,
            <<>>,
            <<0>>, <<>>))

ProgramNames == {"ZeroMult", "TailDominance", "ArrayLoadMove", "LiveArray", "LoopArrayWrite", "DceArgs", "DeadBinaryOperations", "DeadWriteWithBreak", "ContinuousSimple", "InterblockPropagation", "OneIterationLoop", "SameBlockStore"}

\* the SSA-form CFG of each source program of the corpus
Corpus ==
    [n \in ProgramNames |->
        CASE n = "ZeroMult" -> ProgZeroMult
          [] n = "TailDominance" -> ProgTailDominance
          [] n = "ArrayLoadMove" -> ProgArrayLoadMove
          [] n = "LiveArray" -> ProgLiveArray
          [] n = "LoopArrayWrite" -> ProgLoopArrayWrite
          [] n = "DceArgs" -> ProgDceArgs
          [] n = "DeadBinaryOperations" -> ProgDeadBinaryOperations
          [] n = "DeadWriteWithBreak" -> ProgDeadWriteWithBreak
          [] n = "ContinuousSimple" -> ProgContinuousSimple
          [] n = "InterblockPropagation" -> ProgInterblockPropagation
          [] n = "OneIterationLoop" -> ProgOneIterationLoop
          [] n = "SameBlockStore" -> ProgSameBlockStore]

\* ---- corpus end ----

(***************************************************************************)
(* The AST that CFGBuilder lowers (src/parsing/parser.py).  A Block        *)
(* carries the symbol table of its scope as the semantic analyser leaves   *)
(* it: variable name -> array dimensions (<<>> for an int), parent scopes  *)
(* included.                                                               *)
(***************************************************************************)
Function(n, as, b) == [name |-> n, args |-> as, body |-> b]

Argument(n) == [name |-> n]

Block(ss, st) == [node |-> "Block", statements |-> ss, symbol_table |-> st]

Assignment(n, v) == [node |-> "Assignment", name |-> n, value |-> v]

Reassignment(l, v) == [node |-> "Reassignment", lvalue |-> l, value |-> v]

\* else_block is <<>> (None) or <<block>>
Condition(c, t, e) == [node |-> "Condition", condition |-> c, then_block |-> t, else_block |-> e]

\* init and update are iterated by CFGBuilder._build_for_loop: sequences
ForLoop(i, c, u, b) == [node |-> "ForLoop", init |-> i, condition |-> c, update |-> u, body |-> b]

UnconditionalLoop(b) == [node |-> "UnconditionalLoop", body |-> b]

FunctionCall(n, as) == [node |-> "FunctionCall", name |-> n, args |-> as]

\* Return(value): value is <<>> (None) or <<expression>>
ReturnStmt(v) == [node |-> "Return", value |-> v]

Break == [node |-> "Break"]

Continue == [node |-> "Continue"]

BinaryOp(o, l, r) == [node |-> "BinaryOp", operator |-> o, left |-> l, right |-> r]

UnaryOp(o, v) == [node |-> "UnaryOp", operator |-> o, operand |-> v]

Identifier(n) == [node |-> "Identifier", name |-> n]

IntegerLiteral(v) == [node |-> "IntegerLiteral", value |-> v]

CallExpression(n, as) == [node |-> "CallExpression", name |-> n, args |-> as]

ArrayAccess(b, is) == [node |-> "ArrayAccess", base |-> b, indices |-> is]

\* the expression ArrayInit()
ArrayInitExpr == [node |-> "ArrayInit"]

LValueIdentifier(n) == [node |-> "LValueIdentifier", name |-> n]

LValueArrayAccess(b, is) == [node |-> "LValueArrayAccess", base |-> b, indices |-> is]

\* SymbolTable.lookup_variable: <<>> (None) or <<dimensions>>
lookup_variable(st, name) == IF name \in DOMAIN st THEN <<st[name]>> ELSE <<>>

\* Type.is_array
is_array(dimensions) == Len(dimensions) > 0

\* ---- programs begin ----
\* test_simple_unreachable_block_drop (tests/test_sccp.py):
\*   func main() -> int { let a int = 0; if (a > 0) { a = 10; } return a; }
AstSimpleUnreachableBlockDrop ==
    Function("main", <<>>,
        Block(<<Assignment("a", IntegerLiteral(0)),
                Condition(BinaryOp(">", Identifier("a"), IntegerLiteral(0)),
                    Block(<<Reassignment(LValueIdentifier("a"), IntegerLiteral(10))>>,
                          ("a" :> <<>>)),
                    <<>>),
                ReturnStmt(<<Identifier("a")>>)>>,
              ("a" :> <<>>)))

\* test_dead_phi_with_dead_incoming (tests/test_dce.py):
\*   func main() -> int { let a int = 0; if (a == 0) { a = 10; } else { a =
\*    20; } let b int = a; return 0; }
AstDeadPhiWithDeadIncoming ==
    Function("main", <<>>,
        Block(<<Assignment("a", IntegerLiteral(0)),
                Condition(BinaryOp("==", Identifier("a"), IntegerLiteral(0)),
                    Block(<<Reassignment(LValueIdentifier("a"), IntegerLiteral(10))>>,
                          ("a" :> <<>> @@ "b" :> <<>>)),
                    <<Block(<<Reassignment(LValueIdentifier("a"), IntegerLiteral(20))>>,
                          ("a" :> <<>> @@ "b" :> <<>>))>>),
                Assignment("b", Identifier("a")),
                ReturnStmt(<<IntegerLiteral(0)>>)>>,
              ("a" :> <<>> @@ "b" :> <<>>)))

\* test_dce_args (tests/test_dce.py):
\*   func main(A [64][64]int, b [64]int, x [64]int) -> int { A[1][1] = 1;
\*    return 0; }
AstDceArgs ==
    Function("main", <<Argument("A"), Argument("b"), Argument("x")>>,
        Block(<<Reassignment(LValueArrayAccess("A", <<IntegerLiteral(1), IntegerLiteral(1)>>), IntegerLiteral(1)),
                ReturnStmt(<<IntegerLiteral(0)>>)>>,
              ("A" :> <<64, 64>> @@ "b" :> <<64>> @@ "x" :> <<64>>)))

\* test_for_loop_gen (tests/test_ssa.py):
\*   func main() -> int { for (let j int = 0; j < 10; j = j + 1) { if (j + 1
\*    == 6) { continue; } if (j == 7) { break; } } return 0; }
AstForLoopGen ==
    Function("main", <<>>,
        Block(<<ForLoop(<<Assignment("j", IntegerLiteral(0))>>, BinaryOp("<", Identifier("j"), IntegerLiteral(10)), <<Reassignment(LValueIdentifier("j"), BinaryOp("+", Identifier("j"), IntegerLiteral(1)))>>,
                    Block(<<Condition(BinaryOp("==", BinaryOp("+", Identifier("j"), IntegerLiteral(1)), IntegerLiteral(6)),
                                Block(<<Continue>>,
                                      ("j" :> <<>>)),
                                <<>>),
                            Condition(BinaryOp("==", Identifier("j"), IntegerLiteral(7)),
                                Block(<<Break>>,
                                      ("j" :> <<>>)),
                                <<>>)>>,
                          ("j" :> <<>>))),
                ReturnStmt(<<IntegerLiteral(0)>>)>>,
              <<>>))

\* test_uncond_loop_gen (tests/test_ssa.py):
\*   func main() -> int { let i int = 0; for { if (i == 5) { continue; } if
\*    (i > 10) { break; } } return 0; }
AstUncondLoopGen ==
    Function("main", <<>>,
        Block(<<Assignment("i", IntegerLiteral(0)),
                UnconditionalLoop(
                    Block(<<Condition(BinaryOp("==", Identifier("i"), IntegerLiteral(5)),
                                Block(<<Continue>>,
                                      ("i" :> <<>>)),
                                <<>>),
                            Condition(BinaryOp(">", Identifier("i"), IntegerLiteral(10)),
                                Block(<<Break>>,
                                      ("i" :> <<>>)),
                                <<>>)>>,
                          ("i" :> <<>>))),
                ReturnStmt(<<IntegerLiteral(0)>>)>>,
              ("i" :> <<>>)))

\* test_hoist_before_break (tests/test_licm.py):
\*   func main() -> int { let v int = 0; let N int = 0; for (let i int = 0; i
\*    < 10; i = i + 1) { v = 2; if (N == 0) { break; } v = 4; } return v; }
\*    func foo() -> int { return -42; }
AstHoistBeforeBreak ==
    Function("main", <<>>,
        Block(<<Assignment("v", IntegerLiteral(0)),
                Assignment("N", IntegerLiteral(0)),
                ForLoop(<<Assignment("i", IntegerLiteral(0))>>, BinaryOp("<", Identifier("i"), IntegerLiteral(10)), <<Reassignment(LValueIdentifier("i"), BinaryOp("+", Identifier("i"), IntegerLiteral(1)))>>,
                    Block(<<Reassignment(LValueIdentifier("v"), IntegerLiteral(2)),
                            Condition(BinaryOp("==", Identifier("N"), IntegerLiteral(0)),
                                Block(<<Break>>,
                                      ("N" :> <<>> @@ "i" :> <<>> @@ "v" :> <<>>)),
                                <<>>),
                            Reassignment(LValueIdentifier("v"), IntegerLiteral(4))>>,
                          ("N" :> <<>> @@ "i" :> <<>> @@ "v" :> <<>>))),
                ReturnStmt(<<Identifier("v")>>)>>,
              ("N" :> <<>> @@ "v" :> <<>>)))

\* CFGBuilder._build_condition (src/ssa/cfg.py):
\*   func main() -> int { let x int = 0; if (1) { x = 2; } else { x = 3; } if
\*    (0) { x = x + 1; } else { x = x + 2; } return x; }
AstConstantElse ==
    Function("main", <<>>,
        Block(<<Assignment("x", IntegerLiteral(0)),
                Condition(IntegerLiteral(1),
                    Block(<<Reassignment(LValueIdentifier("x"), IntegerLiteral(2))>>,
                          ("x" :> <<>>)),
                    <<Block(<<Reassignment(LValueIdentifier("x"), IntegerLiteral(3))>>,
                          ("x" :> <<>>))>>),
                Condition(IntegerLiteral(0),
                    Block(<<Reassignment(LValueIdentifier("x"), BinaryOp("+", Identifier("x"), IntegerLiteral(1)))>>,
                          ("x" :> <<>>)),
                    <<Block(<<Reassignment(LValueIdentifier("x"), BinaryOp("+", Identifier("x"), IntegerLiteral(2)))>>,
                          ("x" :> <<>>))>>),
                ReturnStmt(<<Identifier("x")>>)>>,
              ("x" :> <<>>)))

\* CFGBuilder._build_condition (src/ssa/cfg.py):
\*   func main() -> int { let x int = 1; for { if (1) { x = 2; } else {
\*    break; } x = x + 1; } return x; }
AstElseBreak ==
    Function("main", <<>>,
        Block(<<Assignment("x", IntegerLiteral(1)),
                UnconditionalLoop(
                    Block(<<Condition(IntegerLiteral(1),
                                Block(<<Reassignment(LValueIdentifier("x"), IntegerLiteral(2))>>,
                                      ("x" :> <<>>)),
                                <<Block(<<Break>>,
                                      ("x" :> <<>>))>>),
                            Reassignment(LValueIdentifier("x"), BinaryOp("+", Identifier("x"), IntegerLiteral(1)))>>,
                          ("x" :> <<>>))),
                ReturnStmt(<<Identifier("x")>>)>>,
              ("x" :> <<>>)))

\* CFGBuilder._build_return (src/ssa/cfg.py):
\*   func main(a int) -> int { let b int = a; let x int = 0; for (let i int =
\*    0; i < 2; i = i + 1) { if (a == 0) { return 0; } x = 7 / b; } return x;
\*    }
AstReturnInLoop ==
    Function("main", <<Argument("a")>>,
        Block(<<Assignment("b", Identifier("a")),
                Assignment("x", IntegerLiteral(0)),
                ForLoop(<<Assignment("i", IntegerLiteral(0))>>, BinaryOp("<", Identifier("i"), IntegerLiteral(2)), <<Reassignment(LValueIdentifier("i"), BinaryOp("+", Identifier("i"), IntegerLiteral(1)))>>,
                    Block(<<Condition(BinaryOp("==", Identifier("a"), IntegerLiteral(0)),
                                Block(<<ReturnStmt(<<IntegerLiteral(0)>>)>>,
                                      ("a" :> <<>> @@ "b" :> <<>> @@ "i" :> <<>> @@ "x" :> <<>>)),
                                <<>>),
                            Reassignment(LValueIdentifier("x"), BinaryOp("/", IntegerLiteral(7), Identifier("b")))>>,
                          ("a" :> <<>> @@ "b" :> <<>> @@ "i" :> <<>> @@ "x" :> <<>>))),
                ReturnStmt(<<Identifier("x")>>)>>,
              ("a" :> <<>> @@ "b" :> <<>> @@ "x" :> <<>>)))

\* CFGBuilder._build_unconditional_loop (src/ssa/cfg.py):
\*   func main(n int) -> int { let s int = 0; for (let i int = 0; i < n; i =
\*    i + 1) { for { if (s > i) { break; } s = s + 1; if (s == 3) { continue;
\*    } } if (s > 5) { break; } } return s; }
AstNestedLoops ==
    Function("main", <<Argument("n")>>,
        Block(<<Assignment("s", IntegerLiteral(0)),
                ForLoop(<<Assignment("i", IntegerLiteral(0))>>, BinaryOp("<", Identifier("i"), Identifier("n")), <<Reassignment(LValueIdentifier("i"), BinaryOp("+", Identifier("i"), IntegerLiteral(1)))>>,
                    Block(<<UnconditionalLoop(
                                Block(<<Condition(BinaryOp(">", Identifier("s"), Identifier("i")),
                                            Block(<<Break>>,
                                                  ("i" :> <<>> @@ "n" :> <<>> @@ "s" :> <<>>)),
                                            <<>>),
                                        Reassignment(LValueIdentifier("s"), BinaryOp("+", Identifier("s"), IntegerLiteral(1))),
                                        Condition(BinaryOp("==", Identifier("s"), IntegerLiteral(3)),
                                            Block(<<Continue>>,
                                                  ("i" :> <<>> @@ "n" :> <<>> @@ "s" :> <<>>)),
                                            <<>>)>>,
                                      ("i" :> <<>> @@ "n" :> <<>> @@ "s" :> <<>>))),
                            Condition(BinaryOp(">", Identifier("s"), IntegerLiteral(5)),
                                Block(<<Break>>,
                                      ("i" :> <<>> @@ "n" :> <<>> @@ "s" :> <<>>)),
                                <<>>)>>,
                          ("i" :> <<>> @@ "n" :> <<>> @@ "s" :> <<>>))),
                ReturnStmt(<<Identifier("s")>>)>>,
              ("n" :> <<>> @@ "s" :> <<>>)))

\* test_proper_phi_placement (tests/test_ssa.py):
\*   func main() -> int { let A [64]int = {}; for (let i int = 0; i < 64; i =
\*    i + 1) { A[i] = 10; } }
AstProperPhiPlacement ==
    Function("main", <<>>,
        Block(<<Assignment("A", ArrayInitExpr),
                ForLoop(<<Assignment("i", IntegerLiteral(0))>>, BinaryOp("<", Identifier("i"), IntegerLiteral(64)), <<Reassignment(LValueIdentifier("i"), BinaryOp("+", Identifier("i"), IntegerLiteral(1)))>>,
                    Block(<<Reassignment(LValueArrayAccess("A", <<Identifier("i")>>), IntegerLiteral(10))>>,
                          ("A" :> <<64>> @@ "i" :> <<>>)))>>,
              ("A" :> <<64>>)))

\* SCCP._eval_binary (src/optimizations/sccp.py):
\*   func main() -> int { let z int = 0; let q int = 7 / z; let r int = q %
\*    0; return 0; }
AstDivisionByZero ==
    Function("main", <<>>,
        Block(<<Assignment("z", IntegerLiteral(0)),
                Assignment("q", BinaryOp("/", IntegerLiteral(7), Identifier("z"))),
                Assignment("r", BinaryOp("%", Identifier("q"), IntegerLiteral(0))),
                ReturnStmt(<<IntegerLiteral(0)>>)>>,
              ("q" :> <<>> @@ "r" :> <<>> @@ "z" :> <<>>)))

\* SCCP._fold_constants (src/optimizations/sccp.py):
\*   func main() -> int { let a [4]int = {}; let x int = 3; a[1] = x; return
\*    a[1]; }
AstStoreOfConstant ==
    Function("main", <<>>,
        Block(<<Assignment("a", ArrayInitExpr),
                Assignment("x", IntegerLiteral(3)),
                Reassignment(LValueArrayAccess("a", <<IntegerLiteral(1)>>), Identifier("x")),
                ReturnStmt(<<ArrayAccess(Identifier("a"), <<IntegerLiteral(1)>>)>>)>>,
              ("a" :> <<4>> @@ "x" :> <<>>)))

SourceNames == {"SimpleUnreachableBlockDrop", "DeadPhiWithDeadIncoming", "DceArgs", "ForLoopGen", "UncondLoopGen", "HoistBeforeBreak", "ConstantElse", "ElseBreak", "ReturnInLoop", "NestedLoops", "ProperPhiPlacement", "DivisionByZero", "StoreOfConstant"}

\* the function main of each source program, as parsed and analysed
Sources ==
    [n \in SourceNames |->
        CASE n = "SimpleUnreachableBlockDrop" -> AstSimpleUnreachableBlockDrop
          [] n = "DeadPhiWithDeadIncoming" -> AstDeadPhiWithDeadIncoming
          [] n = "DceArgs" -> AstDceArgs
          [] n = "ForLoopGen" -> AstForLoopGen
          [] n = "UncondLoopGen" -> AstUncondLoopGen
          [] n = "HoistBeforeBreak" -> AstHoistBeforeBreak
          [] n = "ConstantElse" -> AstConstantElse
          [] n = "ElseBreak" -> AstElseBreak
          [] n = "ReturnInLoop" -> AstReturnInLoop
          [] n = "NestedLoops" -> AstNestedLoops
          [] n = "ProperPhiPlacement" -> AstProperPhiPlacement
          [] n = "DivisionByZero" -> AstDivisionByZero
          [] n = "StoreOfConstant" -> AstStoreOfConstant]

\* ---- programs end ----

\* `None` where a block is expected
NoBlock == -1

(***************************************************************************)
(* Sequence helpers                                                        *)
(***************************************************************************)
\* Python evaluates the arguments of a call before the call: Eager(x, e) is e,
\* with x evaluated first
Eager(x, e) == IF x = x THEN e ELSE e

Range(s) == {s[i] : i \in DOMAIN s}

Contains(s, x) == \E i \in DOMAIN s : s[i] = x

\* list.remove(x): drops the first occurrence (the caller checks membership)
RemoveFirst(s, x) ==
    LET i == CHOOSE j \in DOMAIN s : s[j] = x /\ \A k \in 1..(j - 1) : s[k] # x
    IN  SubSeq(s, 1, i - 1) \o SubSeq(s, i + 1, Len(s))

RECURSIVE SortedSeq(_)
SortedSeq(S) ==
    IF S = {} THEN <<>>
    ELSE LET m == CHOOSE x \in S : \A y \in S : x <= y
         IN  <<m>> \o SortedSeq(S \ {m})

Reverse(s) == [i \in 1..Len(s) |-> s[Len(s) + 1 - i]]

(***************************************************************************)
(* CFG.__iter__: depth-first from the entry with an explicit stack         *)
(***************************************************************************)
\* q.extend(s for s in n.succ if s not in visited_blocks)
IterExtend(q, succs, visited) == q \o SelectSeq(succs, LAMBDA s : s \notin visited)

\* pops already visited blocks off the stack
RECURSIVE IterSkip(_, _)
IterSkip(q, visited) ==
    IF q = <<>> THEN q
    ELSE IF q[Len(q)] \in visited THEN IterSkip(SubSeq(q, 1, Len(q) - 1), visited)
    ELSE q

RECURSIVE IterFrom(_, _, _)
IterFrom(c, q, visited) ==
    LET q1 == IterSkip(q, visited)
    IN  IF q1 = <<>> THEN <<>>
        ELSE LET n == q1[Len(q1)]
                 v1 == visited \cup {n}
             IN  <<n>> \o IterFrom(c, IterExtend(SubSeq(q1, 1, Len(q1) - 1), c.blocks[n].succ, v1), v1)

\* list(cfg)
IterCFG(c) == IterFrom(c, <<c.entry>>, {})

Reachable(c) == Range(IterCFG(c))

(***************************************************************************)
(* Def-use metadata shared by the passes                                   *)
(***************************************************************************)
\* the SSA values an instruction reads (_iter_uses_from_rhs / _iter_uses_from_vals)
Operands(inst) ==
    CASE inst.op = "assign" -> inst.rhs.args
      [] inst.op = "phi" -> [i \in DOMAIN inst.rhs |-> inst.rhs[i][2]]
      [] OTHER -> inst.args

IsVar(v) == v.kind = "var"

\* (name, version) keys read by an instruction; a variable without version is skipped
UseKeys(inst) == {as_tuple(v) : v \in {w \in Range(Operands(inst)) : IsVar(w) /\ w.version # 0}}

IsDef(inst) == inst.op \in {"assign", "phi", "array_init", "getarg"}

\* every phi and instruction of the blocks B, with its block and index (-1 for a phi)
Entries(c, B) ==
    UNION {{[block |-> b, idx |-> i, inst |-> c.blocks[b].instructions[i]] : i \in DOMAIN c.blocks[b].instructions}
           \cup {[block |-> b, idx |-> -1, inst |-> c.blocks[b].phi_nodes[i]] : i \in DOMAIN c.blocks[b].phi_nodes}
           : b \in B}

\* all (name, version) keys occurring in the function
KeysOf(c) ==
    LET E == Entries(c, DOMAIN c.blocks)
    IN  UNION {UseKeys(e.inst) : e \in E} \cup {as_tuple(e.inst.lhs) : e \in {x \in E : IsDef(x.inst)}}

(***************************************************************************)
(* SCCP (src/optimizations/sccp.py)                                        *)
(***************************************************************************)
\* LatticeValue.undef / const / nac
LUndef == [kind |-> "UNDEF", value |-> 0]

LConst(v) == [kind |-> "CONST", value |-> v]

LNac == [kind |-> "NAC", value |-> 0]

\* a join that keeps the first of two different constants
join_keeps_first_constant(a, b) ==
    IF a.kind = "UNDEF" THEN b
    ELSE IF b.kind = "UNDEF" THEN a
    ELSE IF a.kind = "NAC" \/ b.kind = "NAC" THEN LNac
    ELSE a

\* LatticeValue.join
join(a, b) ==
    IF a.kind = "UNDEF" THEN b
    ELSE IF b.kind = "UNDEF" THEN a
    ELSE IF a.kind = "NAC" \/ b.kind = "NAC" THEN LNac
    ELSE IF a.value = b.value THEN a ELSE LNac

\* Python's floor division and modulo (result takes the sign of the divisor)
PyFloorDiv(x, y) == IF y > 0 THEN x \div y ELSE (0 - x) \div (0 - y)

PyMod(x, y) == x - y * PyFloorDiv(x, y)

_truthy(v) == IF v # 0 THEN 1 ELSE 0

Bool01(b) == IF b THEN 1 ELSE 0

\* an evaluation that takes a division by zero to be the constant 0
_eval_binary_zero_divisor_yields_zero(op, a, b) ==
    IF a.kind = "NAC" \/ b.kind = "NAC" THEN LNac
    ELSE IF ~(a.kind = "CONST" /\ b.kind = "CONST") THEN LUndef
    ELSE LET x == a.value
             y == b.value
         IN  CASE op = "+" -> LConst(x + y)
               [] op = "-" -> LConst(x - y)
               [] op = "*" -> LConst(x * y)
               [] op = "/" -> IF y = 0 THEN LConst(0) ELSE LConst(PyFloorDiv(x, y))
               [] op = "%" -> IF y = 0 THEN LConst(0) ELSE LConst(PyMod(x, y))
               [] op = "==" -> LConst(Bool01(x = y))
               [] op = "!=" -> LConst(Bool01(x # y))
               [] op = "<" -> LConst(Bool01(x < y))
               [] op = "<=" -> LConst(Bool01(x <= y))
               [] op = ">" -> LConst(Bool01(x > y))
               [] op = ">=" -> LConst(Bool01(x >= y))
               [] op = "&&" -> LConst(Bool01(_truthy(x) = 1 /\ _truthy(y) = 1))
               [] op = "||" -> LConst(Bool01(_truthy(x) = 1 \/ _truthy(y) = 1))
               [] OTHER -> LNac

_eval_binary(op, a, b) ==
    IF a.kind = "NAC" \/ b.kind = "NAC" THEN LNac
    ELSE IF ~(a.kind = "CONST" /\ b.kind = "CONST") THEN LUndef
    ELSE LET x == a.value
             y == b.value
         IN  CASE op = "+" -> LConst(x + y)
               [] op = "-" -> LConst(x - y)
               [] op = "*" -> LConst(x * y)
               [] op = "/" -> IF y = 0 THEN LNac ELSE LConst(PyFloorDiv(x, y))
               [] op = "%" -> IF y = 0 THEN LNac ELSE LConst(PyMod(x, y))
               [] op = "==" -> LConst(Bool01(x = y))
               [] op = "!=" -> LConst(Bool01(x # y))
               [] op = "<" -> LConst(Bool01(x < y))
               [] op = "<=" -> LConst(Bool01(x <= y))
               [] op = ">" -> LConst(Bool01(x > y))
               [] op = ">=" -> LConst(Bool01(x >= y))
               [] op = "&&" -> LConst(Bool01(_truthy(x) = 1 /\ _truthy(y) = 1))
               [] op = "||" -> LConst(Bool01(_truthy(x) = 1 \/ _truthy(y) = 1))
               [] OTHER -> LNac

_eval_unary(op, v) ==
    IF v.kind = "NAC" THEN LNac
    ELSE IF v.kind # "CONST" THEN LUndef
    ELSE CASE op = "-" -> LConst(0 - v.value)
           [] op = "!" -> LConst(IF v.value # 0 THEN 0 ELSE 1)
           [] OTHER -> LNac

_get_lattice_of_value(vs, v) ==
    IF v.kind = "const" THEN LConst(v.value)
    ELSE IF v.kind = "var" THEN (IF v.version = 0 THEN LUndef ELSE vs[as_tuple(v)])
    ELSE LNac

_evaluate_rhs(vs, rhs) ==
    CASE rhs.type = "load" -> LNac
      [] rhs.type = "binary" -> _eval_binary(rhs.opr, _get_lattice_of_value(vs, rhs.args[1]), _get_lattice_of_value(vs, rhs.args[2]))
      [] rhs.type = "unary" -> _eval_unary(rhs.opr, _get_lattice_of_value(vs, rhs.args[1]))
      [] rhs.type = "call" -> LNac
      [] rhs.type = "value" -> _get_lattice_of_value(vs, rhs.args[1])
      [] OTHER -> LNac

\* The propagation state S: value_state, executable_blocks, feasible_edges and
\* the two worklists.
_set_lattice(S, key, val) ==
    LET old == S.value_state[key]
        new == join(old, val)
    IN  IF new # old
        THEN [S EXCEPT !.value_state[key] = new, !.var_worklist = Append(@, key)]
        ELSE S

\* a marking that queues the block each time it is marked
_mark_block_executable_queues_again(S, b) ==
    [S EXCEPT !.executable_blocks = @ \cup {b}, !.block_worklist = Append(@, b)]

_mark_block_executable(S, b) ==
    IF b \notin S.executable_blocks
    THEN [S EXCEPT !.executable_blocks = @ \cup {b}, !.block_worklist = Append(@, b)]
    ELSE S

\* the join over the incoming values of the feasible predecessor edges
RECURSIVE PhiJoin(_, _, _, _, _)
PhiJoin(S, c, b, phi, i) ==
    IF i > Len(c.blocks[b].preds) THEN LUndef
    ELSE LET p == c.blocks[b].preds[i]
             rest == PhiJoin(S, c, b, phi, i + 1)
             inc == {j \in DOMAIN phi.rhs : phi.rhs[j][1] = p}
         IN  IF <<p, b>> \notin S.feasible_edges \/ inc = {} THEN rest
             ELSE join(_get_lattice_of_value(S.value_state, phi.rhs[CHOOSE j \in inc : TRUE][2]), rest)

_evaluate_phi(S, c, b, phi) == _set_lattice(S, as_tuple(phi.lhs), PhiJoin(S, c, b, phi, 1))

RECURSIVE _update_phis_for_edge(_, _, _, _)
_update_phis_for_edge(S, c, succ, i) ==
    IF i > Len(c.blocks[succ].phi_nodes) THEN S
    ELSE Eager(S, _update_phis_for_edge(_evaluate_phi(S, c, succ, c.blocks[succ].phi_nodes[i]), c, succ, i + 1))

_mark_edge_feasible(S, c, pred, succ) ==
    IF <<pred, succ>> \in S.feasible_edges THEN S
    ELSE _update_phis_for_edge(
             _mark_block_executable([S EXCEPT !.feasible_edges = @ \cup {<<pred, succ>>}], succ),
             c, succ, 1)

_evaluate_assign(S, inst) == _set_lattice(S, as_tuple(inst.lhs), _evaluate_rhs(S.value_state, inst.rhs))

\* a branch evaluation that takes else_block when the operands are equal
_evaluate_branch_equal_selects_else_block(S, c, br, b) ==
    LET lv == _get_lattice_of_value(S.value_state, br.args[1])
        rv == _get_lattice_of_value(S.value_state, br.args[2])
    IN  IF lv.kind = "CONST" /\ rv.kind = "CONST"
        THEN (IF lv.value = rv.value
              THEN _mark_edge_feasible(S, c, b, br.targets[2])
              ELSE _mark_edge_feasible(S, c, b, br.targets[1]))
        ELSE IF lv.kind = "NAC" \/ rv.kind = "NAC"
        THEN _mark_edge_feasible(_mark_edge_feasible(S, c, b, br.targets[1]), c, b, br.targets[2])
        ELSE S

_evaluate_branch(S, c, br, b) ==
    LET lv == _get_lattice_of_value(S.value_state, br.args[1])
        rv == _get_lattice_of_value(S.value_state, br.args[2])
    IN  IF lv.kind = "CONST" /\ rv.kind = "CONST"
        THEN (IF lv.value = rv.value
              THEN _mark_edge_feasible(S, c, b, br.targets[1])
              ELSE _mark_edge_feasible(S, c, b, br.targets[2]))
        ELSE IF lv.kind = "NAC" \/ rv.kind = "NAC"
        THEN _mark_edge_feasible(_mark_edge_feasible(S, c, b, br.targets[1]), c, b, br.targets[2])
        ELSE S

\* one instruction of _process_block's match
ProcessInst(S, c, b, inst) ==
    CASE inst.op = "assign" -> _evaluate_assign(S, inst)
      [] inst.op = "cmp" -> _evaluate_branch(S, c, inst, b)
      [] inst.op = "jmp" -> _mark_edge_feasible(S, c, b, inst.targets[1])
      [] inst.op \in {"array_init", "getarg"} -> _set_lattice(S, as_tuple(inst.lhs), LNac)
      [] OTHER -> S

RECURSIVE ProcessInsts(_, _, _, _)
ProcessInsts(S, c, b, i) ==
    IF i > Len(c.blocks[b].instructions) THEN S
    ELSE Eager(S, ProcessInsts(ProcessInst(S, c, b, c.blocks[b].instructions[i]), c, b, i + 1))

_process_block(S, c, b) == ProcessInsts(_update_phis_for_edge(S, c, b, 1), c, b, 1)

\* SCCP.uses[key]: the users of a variable among the blocks reachable at the
\* start of the pass, taken in instruction order
SccpUsers(c, key) ==
    LET U == {e \in Entries(c, Reachable(c)) : key \in UseKeys(e.inst)}
        ids == SortedSeq({e.inst.id : e \in U})
    IN  [i \in DOMAIN ids |-> CHOOSE e \in U : e.inst.id = ids[i]]

RECURSIVE ProcessUsers(_, _, _, _)
ProcessUsers(S, c, us, i) ==
    IF i > Len(us) THEN S
    ELSE Eager(S, LET u == us[i]
             S1 == CASE u.inst.op = "phi" ->
                            (IF u.block \in S.executable_blocks THEN _evaluate_phi(S, c, u.block, u.inst) ELSE S)
                      [] u.inst.op = "assign" -> _evaluate_assign(S, u.inst)
                      [] u.inst.op = "cmp" ->
                            (IF u.block \in S.executable_blocks THEN _evaluate_branch(S, c, u.inst, u.block) ELSE S)
                      [] OTHER -> S
         IN  ProcessUsers(S1, c, us, i + 1))

_process_variable_users(S, c, key) == ProcessUsers(S, c, SccpUsers(c, key), 1)

\* SCCP.__init__ followed by _mark_block_executable(cfg.entry)
SccpInit(c) ==
    _mark_block_executable(
        [value_state |-> [k \in KeysOf(c) |-> LUndef], executable_blocks |-> {},
         feasible_edges |-> {}, block_worklist |-> <<>>, var_worklist |-> <<>>],
        c.entry)

\* a raised exception aborts the pass: R = [cfg, err]
Ok(c) == [cfg |-> c, err |-> "none"]

Failed(R, e) == [R EXCEPT !.err = e]

\* for pred in bb.preds: pred.succ.remove(bb)
RECURSIVE DetachFromPreds(_, _, _, _)
DetachFromPreds(R, bb, ps, i) ==
    IF R.err # "none" \/ i > Len(ps) THEN R
    ELSE IF ~Contains(R.cfg.blocks[ps[i]].succ, bb) THEN Failed(R, "ValueError")
    ELSE DetachFromPreds([R EXCEPT !.cfg.blocks[ps[i]].succ = RemoveFirst(@, bb)], bb, ps, i + 1)

\* phi.rhs.pop(label, None)
PhiPop(phi, l) == [phi EXCEPT !.rhs = SelectSeq(@, LAMBDA e : e[1] # l)]

\* for succ in bb.succ: succ.preds.remove(bb); every phi of succ drops bb.label
RECURSIVE DetachFromSuccs(_, _, _, _)
DetachFromSuccs(R, bb, ss, i) ==
    IF R.err # "none" \/ i > Len(ss) THEN R
    ELSE IF ~Contains(R.cfg.blocks[ss[i]].preds, bb) THEN Failed(R, "ValueError")
    ELSE DetachFromSuccs(
             [R EXCEPT !.cfg.blocks[ss[i]].preds = RemoveFirst(@, bb),
                       !.cfg.blocks[ss[i]].phi_nodes = [k \in DOMAIN @ |-> PhiPop(@[k], bb)]],
             bb, ss, i + 1)

\* a detachment that leaves the block's own lists as they were
DetachBlock_keeps_own_lists(R, bb) ==
    LET R1 == DetachFromPreds(R, bb, R.cfg.blocks[bb].preds, 1)
    IN  IF R1.err # "none" THEN R1 ELSE DetachFromSuccs(R1, bb, R1.cfg.blocks[bb].succ, 1)

\* the body of _rewrite_cfg's loop for one non-executable block
DetachBlock(R, bb) ==
    LET R1 == DetachFromPreds(R, bb, R.cfg.blocks[bb].preds, 1)
        R2 == IF R1.err # "none" THEN R1 ELSE DetachFromSuccs(R1, bb, R1.cfg.blocks[bb].succ, 1)
    IN  IF R2.err # "none" THEN R2
        ELSE [R2 EXCEPT !.cfg.blocks[bb].succ = <<>>, !.cfg.blocks[bb].preds = <<>>]

RECURSIVE RewriteBlocks(_, _, _, _)
RewriteBlocks(R, order, i, executable) ==
    IF R.err # "none" \/ i > Len(order) THEN R
    ELSE RewriteBlocks(IF order[i] \in executable THEN R ELSE DetachBlock(R, order[i]), order, i + 1, executable)

\* the blocks are listed (list(self.cfg)) before any of them is detached
_rewrite_cfg(c, executable) == RewriteBlocks(Ok(c), IterCFG(c), 1, executable)

_replace_value(vs, v) ==
    IF v.kind = "var" /\ v.version # 0 /\ vs[as_tuple(v)].kind = "CONST"
    THEN Const(vs[as_tuple(v)].value)
    ELSE v

\* a Load is returned unchanged
_replace_in_rhs(vs, rhs) ==
    IF rhs.type \in {"binary", "unary", "call", "value"}
    THEN [rhs EXCEPT !.args = [i \in DOMAIN @ |-> _replace_value(vs, @[i])]]
    ELSE rhs

\* InstAssign case of _fold_constants
FoldAssign(vs, inst) ==
    LET new_rhs == _replace_in_rhs(vs, inst.rhs)
        folded == IF new_rhs.type = "binary"
                  THEN _eval_binary(new_rhs.opr, _get_lattice_of_value(vs, new_rhs.args[1]),
                                    _get_lattice_of_value(vs, new_rhs.args[2]))
                  ELSE IF new_rhs.type = "unary"
                  THEN _eval_unary(new_rhs.opr, _get_lattice_of_value(vs, new_rhs.args[1]))
                  ELSE LNac
    IN  IF folded.kind = "CONST"
        THEN [inst EXCEPT !.rhs = OpValue(Const(folded.value))]
        ELSE [inst EXCEPT !.rhs = new_rhs]

\* for s in bb.succ: if s.label != target.label: s.preds.remove(bb)
RECURSIVE DropOtherSuccs(_, _, _, _, _)
DropOtherSuccs(R, bb, ss, i, target) ==
    IF R.err # "none" \/ i > Len(ss) THEN R
    ELSE IF ss[i] = target THEN DropOtherSuccs(R, bb, ss, i + 1, target)
    ELSE IF ~Contains(R.cfg.blocks[ss[i]].preds, bb) THEN Failed(R, "ValueError")
    ELSE DropOtherSuccs([R EXCEPT !.cfg.blocks[ss[i]].preds = RemoveFirst(@, bb)], bb, ss, i + 1, target)

\* InstCmp case of _fold_constants; the new UncondJump is a fresh instruction
FoldCmp(R, vs, bb, i) ==
    LET inst == R.cfg.blocks[bb].instructions[i]
        new == [inst EXCEPT !.args = <<_replace_value(vs, inst.args[1]), _replace_value(vs, inst.args[2])>>]
        l == _get_lattice_of_value(vs, new.args[1])
        r == _get_lattice_of_value(vs, new.args[2])
        target == IF l.value = r.value THEN inst.targets[1] ELSE inst.targets[2]
        R1 == [R EXCEPT !.cfg.blocks[bb].instructions[i] = new]
    IN  IF l.kind = "CONST" /\ r.kind = "CONST"
        THEN LET R2 == [R1 EXCEPT !.cfg.blocks[bb].instructions[i] = UncondJump(0 - inst.id, target)]
                 R3 == DropOtherSuccs(R2, bb, R2.cfg.blocks[bb].succ, 1, target)
             IN  IF R3.err # "none" THEN R3 ELSE [R3 EXCEPT !.cfg.blocks[bb].succ = <<target>>]
        ELSE R1

RECURSIVE FoldInsts(_, _, _, _)
FoldInsts(R, vs, bb, i) ==
    IF R.err # "none" \/ i > Len(R.cfg.blocks[bb].instructions) THEN R
    ELSE LET inst == R.cfg.blocks[bb].instructions[i]
             R1 == CASE inst.op = "assign" -> [R EXCEPT !.cfg.blocks[bb].instructions[i] = FoldAssign(vs, inst)]
                     [] inst.op = "cmp" -> FoldCmp(R, vs, bb, i)
                     [] inst.op = "return" ->
                            [R EXCEPT !.cfg.blocks[bb].instructions[i].args = [k \in DOMAIN @ |-> _replace_value(vs, @[k])]]
                     [] OTHER -> R
         IN  FoldInsts(R1, vs, bb, i + 1)

\* the phi part of _fold_constants for one block: entries of labels that are
\* not predecessors now are dropped, the kept values are replaced
FoldPhi(vs, blk, phi) ==
    LET kept == SelectSeq(phi.rhs, LAMBDA e : e[1] \in Range(blk.preds))
    IN  [phi EXCEPT !.rhs = [k \in DOMAIN kept |-> <<kept[k][1], _replace_value(vs, kept[k][2])>>]]

\* the body of _fold_constants' loop for block bb
FoldBlock(c, vs, bb) ==
    FoldInsts(Ok([c EXCEPT !.blocks[bb].phi_nodes = [k \in DOMAIN @ |-> FoldPhi(vs, c.blocks[bb], @[k])]]),
              vs, bb, 1)

(***************************************************************************)
(* DCE (src/optimizations/dce.py)                                          *)
(***************************************************************************)
\* The marking state L: live_insts (instruction identities), live_vars and the
\* worklist var_work.

\* bb.instructions[:seed_idx] for a Python index (0-based, -1 = all but the last)
PySlicePrefix(insts, seed_idx) ==
    IF seed_idx >= 0 THEN SubSeq(insts, 1, IF seed_idx < Len(insts) THEN seed_idx ELSE Len(insts))
    ELSE SubSeq(insts, 1, Len(insts) + seed_idx)

IsStoreThrough(inst, base) == inst.op = "store" /\ inst.args[1].base_pointer = base

\* the scan of the seed's own block, backwards from the seed: [L, returned]
RECURSIVE ScanOwnBlock(_, _, _, _)
ScanOwnBlock(L, insts, i, base) ==
    IF i < 1 THEN [L |-> L, returned |-> FALSE]
    ELSE IF ~IsStoreThrough(insts[i], base) THEN ScanOwnBlock(L, insts, i - 1, base)
    ELSE LET key == as_tuple(insts[i].args[1])
         IN  IF key \in L.live_vars THEN [L |-> L, returned |-> TRUE]
             ELSE ScanOwnBlock([L EXCEPT !.live_vars = @ \cup {key},
                                         !.var_work = Append(@, key),
                                         !.live_insts = @ \cup {insts[i].id}],
                               insts, i - 1, base)

\* marks a variable live and queues it, unless it is live already
AddLiveVar(L, key) ==
    IF key \in L.live_vars THEN L
    ELSE [L EXCEPT !.live_vars = @ \cup {key}, !.var_work = Append(@, key)]

\* the scan of a predecessor block, backwards from its end: [L, dead_end]
RECURSIVE ScanPredBlock(_, _, _, _)
ScanPredBlock(L, insts, i, base) ==
    IF i < 1 THEN [L |-> L, dead_end |-> FALSE]
    ELSE IF ~IsStoreThrough(insts[i], base) THEN ScanPredBlock(L, insts, i - 1, base)
    ELSE IF insts[i].id \in L.live_insts THEN [L |-> L, dead_end |-> TRUE]
    ELSE LET L1 == AddLiveVar([L EXCEPT !.live_insts = @ \cup {insts[i].id}], as_tuple(insts[i].args[1]))
             L2 == IF IsVar(insts[i].args[2]) THEN AddLiveVar(L1, as_tuple(insts[i].args[2])) ELSE L1
         IN  ScanPredBlock(L2, insts, i - 1, base)

\* the `while len(q) > 0` loop of _mark_pointer_chain
RECURSIVE ChainWalk(_, _, _, _, _)
ChainWalk(L, c, q, seen, base) ==
    IF q = <<>> THEN L
    ELSE LET cur == q[Len(q)]
             rest == SubSeq(q, 1, Len(q) - 1)
         IN  IF cur \in seen THEN ChainWalk(L, c, rest, seen, base)
             ELSE LET seen1 == seen \cup {cur}
                      r == ScanPredBlock(L, c.blocks[cur].instructions, Len(c.blocks[cur].instructions), base)
                  IN  IF r.dead_end THEN ChainWalk(r.L, c, rest, seen1, base)
                      ELSE ChainWalk(r.L, c, rest \o SelectSeq(c.blocks[cur].preds, LAMBDA p : p \notin seen1), seen1, base)

\* a pointer-chain scan that stops at the seed's own block
_mark_pointer_chain_own_block_only(L, c, bb, ptr_seed, seed_idx) ==
    LET prefix == PySlicePrefix(c.blocks[bb].instructions, seed_idx)
    IN  ScanOwnBlock(L, prefix, Len(prefix), ptr_seed.base_pointer).L

_mark_pointer_chain(L, c, bb, ptr_seed, seed_idx) ==
    LET prefix == PySlicePrefix(c.blocks[bb].instructions, seed_idx)
        r == ScanOwnBlock(L, prefix, Len(prefix), ptr_seed.base_pointer)
    IN  IF r.returned THEN r.L
        ELSE ChainWalk(r.L, c, SelectSeq(c.blocks[bb].preds, LAMBDA p : p # bb), {}, ptr_seed.base_pointer)

mark_value_live(L, c, bb, inst_idx, val) ==
    IF ~IsVar(val) THEN L
    ELSE LET L1 == IF val.base_pointer # NoBase THEN _mark_pointer_chain(L, c, bb, val, inst_idx) ELSE L
         IN  AddLiveVar(L1, as_tuple(val))

RECURSIVE MarkValuesLive(_, _, _, _, _, _)
MarkValuesLive(L, c, bb, inst_idx, vals, k) ==
    IF k > Len(vals) THEN L
    ELSE Eager(L, MarkValuesLive(mark_value_live(L, c, bb, inst_idx, vals[k]), c, bb, inst_idx, vals, k + 1))

\* a division is a root only when its divisor is the constant 0
IsDivisionRoot_constant_zero_only(inst) ==
    /\ inst.op = "assign"
    /\ inst.rhs.type = "binary"
    /\ inst.rhs.opr \in {"/", "%"}
    /\ inst.rhs.args[2].kind = "const" /\ inst.rhs.args[2].value = 0

\* OpBinary("/" | "%", _, SSAVariable() | SSAConstant(0))
IsDivisionRoot(inst) ==
    /\ inst.op = "assign"
    /\ inst.rhs.type = "binary"
    /\ inst.rhs.opr \in {"/", "%"}
    /\ \/ IsVar(inst.rhs.args[2])
       \/ inst.rhs.args[2].kind = "const" /\ inst.rhs.args[2].value = 0

IsCallRoot(inst) == inst.op = "assign" /\ inst.rhs.type = "call"

\* seeding that treats an array argument like any other argument
SeedInst_without_array_arguments(L, c, bb, i, inst) ==
    CASE IsDivisionRoot(inst) \/ IsCallRoot(inst) ->
             MarkValuesLive([L EXCEPT !.live_insts = @ \cup {inst.id}], c, bb, i, inst.rhs.args, 1)
      [] inst.op \in {"return", "cmp"} ->
             MarkValuesLive([L EXCEPT !.live_insts = @ \cup {inst.id}], c, bb, i, inst.args, 1)
      [] OTHER -> L

\* one instruction of _seed_roots' match; i is the Python index of inst in bb
SeedInst(L, c, bb, i, inst) ==
    CASE inst.op = "getarg" /\ inst.lhs.base_pointer # NoBase ->
             _mark_pointer_chain([L EXCEPT !.live_vars = @ \cup {as_tuple(inst.lhs)},
                                           !.live_insts = @ \cup {inst.id}],
                                 c, c.exit, inst.lhs, -1)
      [] IsDivisionRoot(inst) \/ IsCallRoot(inst) ->
             MarkValuesLive([L EXCEPT !.live_insts = @ \cup {inst.id}], c, bb, i, inst.rhs.args, 1)
      [] inst.op \in {"return", "cmp"} ->
             MarkValuesLive([L EXCEPT !.live_insts = @ \cup {inst.id}], c, bb, i, inst.args, 1)
      [] OTHER -> L

RECURSIVE SeedBlock(_, _, _, _)
SeedBlock(L, c, bb, k) ==
    IF k > Len(c.blocks[bb].instructions) THEN L
    ELSE Eager(L, SeedBlock(SeedInst(L, c, bb, k - 1, c.blocks[bb].instructions[k]), c, bb, k + 1))

RECURSIVE SeedBlocks(_, _, _, _)
SeedBlocks(L, c, order, k) ==
    IF k > Len(order) THEN L
    ELSE Eager(L, SeedBlocks(SeedBlock(L, c, order[k], 1), c, order, k + 1))

_seed_roots(c) == SeedBlocks([live_insts |-> {}, live_vars |-> {}, var_work |-> <<>>], c, IterCFG(c), 1)

\* DCE.defs: the definitions found in the blocks reachable from the entry
DceDefs(c) == {e \in Entries(c, Reachable(c)) : IsDef(e.inst)}

\* _build_metadata asserts that every definition and every operand of an
\* Assign, Cmp or Return it indexes has a version
DceMetadataOk(c) ==
    \A e \in Entries(c, Reachable(c)) :
        /\ IsDef(e.inst) => e.inst.lhs.version # 0
        /\ e.inst.op \in {"assign", "cmp", "return"} =>
               \A v \in Range(Operands(e.inst)) : IsVar(v) => v.version # 0

\* one iteration of `while var_work` in _mark: [L, err]
MarkStep(L, c) ==
    LET key == Head(L.var_work)
        L0 == [L EXCEPT !.var_work = Tail(@)]
        D == {e \in DceDefs(c) : as_tuple(e.inst.lhs) = key}
    IN  IF D = {} THEN [L |-> L0, err |-> "KeyError"]
        ELSE LET d == CHOOSE e \in D : TRUE
                 def_idx == IF d.idx = -1 THEN -1 ELSE d.idx - 1
             IN  IF d.inst.id \in L0.live_insts THEN [L |-> L0, err |-> "none"]
                 ELSE IF \E v \in Range(Operands(d.inst)) : IsVar(v) /\ v.version = 0
                 THEN [L |-> L0, err |-> "AssertionError"]
                 ELSE [L |-> MarkValuesLive([L0 EXCEPT !.live_insts = @ \cup {d.inst.id}],
                                            c, d.block, def_idx, Operands(d.inst), 1),
                       err |-> "none"]

\* a sweep that drops every phi, live or dead
SweepBlock_drops_live_phis(blk, live_insts) ==
    [blk EXCEPT !.phi_nodes = <<>>,
                !.instructions = SelectSeq(@, LAMBDA inst : inst.op \in {"jmp", "return", "cmp"} \/ inst.id \in live_insts)]

\* _sweep for one block: dead phis are removed; Return, Cmp and UncondJump are
\* kept, Assign, GetArgument, ArrayInit and Store only if live
SweepBlock(blk, live_insts) ==
    [blk EXCEPT !.phi_nodes = SelectSeq(@, LAMBDA phi : phi.id \in live_insts),
                !.instructions = SelectSeq(@, LAMBDA inst : inst.op \in {"jmp", "return", "cmp"} \/ inst.id \in live_insts)]

_sweep(c, live_insts) ==
    [c EXCEPT !.blocks = [b \in DOMAIN @ |-> IF b \in Reachable(c) THEN SweepBlock(@[b], live_insts) ELSE @[b]]]

(***************************************************************************)
(* Dominators (src/ssa/dominance.py)                                       *)
(***************************************************************************)
\* prune_unreachable: walking back from the exit, every visited block loses the
\* predecessors that are not reachable from the entry
RECURSIVE PruneWalk(_, _, _, _)
PruneWalk(c, reachable_blocks, q, visited) ==
    IF q = <<>> THEN c
    ELSE Eager(c, LET bb == q[Len(q)]
             kept == SelectSeq(c.blocks[bb].preds, LAMBDA p : p \in reachable_blocks)
             fresh == Range(kept) \ (visited \cup {bb})
         IN  PruneWalk([c EXCEPT !.blocks[bb].preds = kept], reachable_blocks,
                       SubSeq(q, 1, Len(q) - 1) \o SortedSeq(fresh), visited \cup {bb} \cup fresh))

prune_unreachable(c, reachable_blocks) == PruneWalk(c, reachable_blocks, <<c.exit>>, {})

\* the body of the `for block in reachable_blocks` loop of _compute_dominators
NewDom(c, dominators, reachable_blocks, block) ==
    LET ps == c.blocks[block].preds
    IN  IF ps = <<>> THEN {block}
        ELSE {block} \cup
             {d \in dominators[ps[1]] :
                 \A i \in 2..Len(ps) : ps[i] \in reachable_blocks => d \in dominators[ps[i]]}

RECURSIVE DomPass(_, _, _, _, _)
DomPass(c, dominators, reachable_blocks, order, i) ==
    IF i > Len(order) THEN dominators
    ELSE Eager(dominators, IF order[i] = c.entry THEN DomPass(c, dominators, reachable_blocks, order, i + 1)
    ELSE DomPass(c, [dominators EXCEPT ![order[i]] = NewDom(c, dominators, reachable_blocks, order[i])],
                 reachable_blocks, order, i + 1))

\* `while changed`
RECURSIVE DomFix(_, _, _, _)
DomFix(c, dominators, reachable_blocks, order) ==
    LET next == DomPass(c, dominators, reachable_blocks, order, 1)
    IN  IF next = dominators THEN dominators ELSE DomFix(c, next, reachable_blocks, order)

\* dominators[block.preds[0]] raises KeyError when the first predecessor of a
\* reachable block is not reachable itself
DominatorsKeyError(c, reachable_blocks) ==
    \E b \in reachable_blocks \ {c.entry} :
        c.blocks[b].preds # <<>> /\ c.blocks[b].preds[1] \notin reachable_blocks

_compute_dominators(c, reachable_blocks) ==
    DomFix(c, [b \in reachable_blocks |-> IF b = c.entry THEN {b} ELSE reachable_blocks],
           reachable_blocks, SortedSeq(reachable_blocks))

\* the strict dominator with the most dominators of its own
Idom(dominators, entry, block) ==
    LET doms == dominators[block] \ {block}
    IN  IF block = entry \/ doms = {} THEN NoBlock
        ELSE CHOOSE d \in doms : \A e \in doms : Cardinality(dominators[e]) <= Cardinality(dominators[d])

\* The children lists of reversed_idom are filled in the iteration order of a
\* set of blocks, which depends on the hash seed of the run; `order` stands for
\* that iteration order.
_build_dominator_tree(dominators, entry, order) ==
    [entry |-> entry,
     dominators |-> dominators,
     idom |-> [b \in DOMAIN dominators |-> Idom(dominators, entry, b)],
     reversed_idom |-> [b \in DOMAIN dominators |->
                           SelectSeq(order, LAMBDA ch : ch # entry /\ Idom(dominators, entry, ch) = b)]]

\* DominatorTree.traverse(start)
RECURSIVE TraverseFrom(_, _, _)
TraverseFrom(tree, q, visited) ==
    IF q = <<>> THEN <<>>
    ELSE LET n == q[Len(q)]
             v1 == visited \cup {n}
         IN  <<n>> \o TraverseFrom(tree, SubSeq(q, 1, Len(q) - 1) \o SelectSeq(tree.reversed_idom[n], LAMBDA x : x \notin v1), v1)

traverse(tree, start) == TraverseFrom(tree, <<start>>, {})

\* the iteration orders of the set of reachable blocks that the model explores
SetOrders == {"asc", "desc"}

SetOrder(S, o) == IF o = "asc" THEN SortedSeq(S) ELSE Reverse(SortedSeq(S))

(***************************************************************************)
(* LICM (src/optimizations/licm.py)                                        *)
(***************************************************************************)
\* _collect_operands: the operands of a binary, unary or call operation, the
\* value itself for a plain value, and nothing for any other operation
_collect_operands(rhs) ==
    IF rhs.type \in {"binary", "unary", "call", "value"} THEN rhs.args ELSE <<>>

\* the phis and Assigns that _index_definitions indexes
LicmDefEntries(c) ==
    {e \in Entries(c, Reachable(c)) : e.inst.op \in {"phi", "assign"} /\ e.inst.lhs.version # 0}

LicmOperandKeys(inst) ==
    LET ops == IF inst.op = "phi" THEN Operands(inst) ELSE _collect_operands(inst.rhs)
    IN  {as_tuple(v) : v \in {w \in Range(ops) : IsVar(w) /\ w.version # 0}}

\* _index_definitions: def_to_block and uses
_index_definitions(c) ==
    LET E == LicmDefEntries(c)
        K == {as_tuple(e.inst.lhs) : e \in E}
    IN  [def_to_block |-> [k \in K |-> (CHOOSE e \in E : as_tuple(e.inst.lhs) = k).block],
         uses |-> [k \in UNION {LicmOperandKeys(e.inst) : e \in E} |->
                      {as_tuple(e.inst.lhs) : e \in {x \in E : k \in LicmOperandKeys(x.inst)}}]]

_dominates(tree, a, b) == b \in DOMAIN tree.dominators /\ a \in tree.dominators[b]

RECURSIVE LoopWalk(_, _, _)
LoopWalk(c, stack, seen_loop_blocks) ==
    IF stack = <<>> THEN seen_loop_blocks
    ELSE Eager(seen_loop_blocks, LET node == stack[Len(stack)]
             rest == SubSeq(stack, 1, Len(stack) - 1)
         IN  IF node \in seen_loop_blocks THEN LoopWalk(c, rest, seen_loop_blocks)
             ELSE LoopWalk(c, rest \o c.blocks[node].preds, seen_loop_blocks \cup {node}))

_collect_loop_blocks(c, header, tail) == LoopWalk(c, <<tail>>, {header})

\* the body of `for succ in bb.succ` of _find_loops: F is [loops, err]
FindLoopEdge(F, c, tree, bb, succ) ==
    IF F.err # "none" \/ ~_dominates(tree, succ, bb) THEN F
    ELSE IF Len(c.blocks[bb].succ) # 2 THEN [F EXCEPT !.err = "AssertionError"]
    ELSE LET loop_blocks == _collect_loop_blocks(c, succ, bb)
             preheaders == SelectSeq(c.blocks[succ].preds, LAMBDA pred : pred \notin loop_blocks)
             ss == c.blocks[bb].succ
         IN  IF Len(preheaders) # 1 THEN [F EXCEPT !.err = "AssertionError"]
             ELSE [F EXCEPT !.loops = Append(@, [header |-> succ,
                                                 preheader |-> preheaders[1],
                                                 blocks |-> loop_blocks,
                                                 exit_block |-> IF ss[1] # succ THEN ss[1] ELSE ss[2]])]

RECURSIVE FindLoopEdges(_, _, _, _, _)
FindLoopEdges(F, c, tree, bb, i) ==
    IF F.err # "none" \/ i > Len(c.blocks[bb].succ) THEN F
    ELSE FindLoopEdges(FindLoopEdge(F, c, tree, bb, c.blocks[bb].succ[i]), c, tree, bb, i + 1)

RECURSIVE FindLoopBlocks(_, _, _, _, _)
FindLoopBlocks(F, c, tree, order, k) ==
    IF F.err # "none" \/ k > Len(order) THEN F
    ELSE FindLoopBlocks(FindLoopEdges(F, c, tree, order[k], 1), c, tree, order, k + 1)

_find_loops(c, tree) == FindLoopBlocks([loops |-> <<>>, err |-> "none"], c, tree, IterCFG(c), 1)

\* sorted(loops, key=lambda x: len(x.blocks)): a stable insertion sort
RECURSIVE InsertLoop(_, _)
InsertLoop(sorted, loop) ==
    IF sorted = <<>> THEN <<loop>>
    ELSE IF Cardinality(sorted[Len(sorted)].blocks) <= Cardinality(loop.blocks) THEN Append(sorted, loop)
    ELSE Append(InsertLoop(SubSeq(sorted, 1, Len(sorted) - 1), loop), sorted[Len(sorted)])

RECURSIVE SortLoops(_, _)
SortLoops(loops, k) ==
    IF k = 0 THEN <<>> ELSE InsertLoop(SortLoops(loops, k - 1), loops[k])

_defs_outside_loop(def_to_block, loop_blocks) ==
    {key \in DOMAIN def_to_block : def_to_block[key] \notin loop_blocks}

\* _operand_is_invariant over the operands in order, as all() evaluates it:
\* "yes", "no", or "assert" for an operand without version
RECURSIVE OperandsInvariant(_, _, _, _, _)
OperandsInvariant(ops, i, loop_blocks, invariant_defs, def_to_block) ==
    IF i > Len(ops) THEN "yes"
    ELSE LET operand == ops[i]
             key == as_tuple(operand)
         IN  IF operand.kind = "const" THEN OperandsInvariant(ops, i + 1, loop_blocks, invariant_defs, def_to_block)
             ELSE IF operand.kind # "var" THEN "no"
             ELSE IF operand.version = 0 THEN "assert"
             ELSE IF \/ key \in invariant_defs
                     \/ key \in DOMAIN def_to_block /\ def_to_block[key] \notin loop_blocks
             THEN OperandsInvariant(ops, i + 1, loop_blocks, invariant_defs, def_to_block)
             ELSE "no"

\* _is_hoistable: "yes", "no", or "assert" when an assertion fails
_is_hoistable(inst, inst_block, loop, invariant_defs, def_to_block, uses, tree) ==
    IF inst.op # "assign" THEN "no"
    ELSE IF inst.rhs.type = "call" THEN "no"
    ELSE IF ~_dominates(tree, inst_block, loop.exit_block) THEN "no"
    ELSE IF inst.lhs.version = 0 THEN "assert"
    ELSE LET def_key == as_tuple(inst.lhs)
             users == IF def_key \in DOMAIN uses THEN uses[def_key] ELSE {}
         IN  IF \E u \in users : /\ u \in DOMAIN def_to_block
                                 /\ def_to_block[u] \in loop.blocks
                                 /\ ~_dominates(tree, inst_block, def_to_block[u])
             THEN "no"
             ELSE OperandsInvariant(_collect_operands(inst.rhs), 1, loop.blocks, invariant_defs, def_to_block)

\* the `for inst in bb.instructions` loop of _hoist_loop; X carries new_insts,
\* hoisted, invariant_defs, def_to_block, changed and err
RECURSIVE HoistInsts(_, _, _, _, _, _, _)
HoistInsts(X, insts, i, bb, loop, uses, tree) ==
    IF i > Len(insts) \/ X.err # "none" THEN X
    ELSE LET h == _is_hoistable(insts[i], bb, loop, X.invariant_defs, X.def_to_block, uses, tree)
             key == as_tuple(insts[i].lhs)
             X1 == CASE h = "assert" -> [X EXCEPT !.err = "AssertionError"]
                     [] h = "yes" -> [X EXCEPT !.hoisted = Append(@, insts[i]),
                                               !.invariant_defs = @ \cup {key},
                                               !.def_to_block = (key :> loop.preheader) @@ @,
                                               !.changed = TRUE]
                     [] OTHER -> [X EXCEPT !.new_insts = Append(@, insts[i])]
         IN  HoistInsts(X1, insts, i + 1, bb, loop, uses, tree)

\* `bb.instructions = new_insts` once the instructions of bb are classified
SetInstructions(X, bb) ==
    IF X.err # "none" THEN X ELSE [X EXCEPT !.cfg.blocks[bb].instructions = X.new_insts]

\* the `for bb in self.dom_tree.traverse(loop.header)` loop
RECURSIVE HoistBlocks(_, _, _, _, _, _)
HoistBlocks(X, order, k, loop, uses, tree) ==
    IF k > Len(order) \/ X.err # "none" THEN X
    ELSE IF order[k] \notin loop.blocks THEN HoistBlocks(X, order, k + 1, loop, uses, tree)
    ELSE HoistBlocks(SetInstructions(HoistInsts([X EXCEPT !.new_insts = <<>>],
                                                X.cfg.blocks[order[k]].instructions, 1,
                                                order[k], loop, uses, tree),
                                     order[k]),
                     order, k + 1, loop, uses, tree)

\* `while changed`: X is the state after one round over the loop's blocks
RECURSIVE HoistFix(_, _, _, _)
RECURSIVE HoistWhile(_, _, _, _)
HoistWhile(X, loop, uses, tree) ==
    IF X.err = "none" /\ X.changed THEN HoistFix(X, loop, uses, tree) ELSE X

HoistFix(X, loop, uses, tree) ==
    HoistWhile(HoistBlocks([X EXCEPT !.changed = FALSE], traverse(tree, loop.header), 1, loop, uses, tree),
               loop, uses, tree)

\* the tail of _hoist_loop: the hoisted instructions go before the terminator
\* of the preheader
InsertHoisted(X, preheader) ==
    LET pre == X.cfg.blocks[preheader].instructions
    IN  IF X.err # "none" \/ X.hoisted = <<>> THEN [cfg |-> X.cfg, def_to_block |-> X.def_to_block, err |-> X.err]
        ELSE IF pre = <<>> THEN [cfg |-> X.cfg, def_to_block |-> X.def_to_block, err |-> "IndexError"]
        ELSE [cfg |-> [X.cfg EXCEPT !.blocks[preheader].instructions =
                                        SubSeq(pre, 1, Len(pre) - 1) \o X.hoisted \o <<pre[Len(pre)]>>],
              def_to_block |-> X.def_to_block,
              err |-> "none"]

\* _hoist_loop: [cfg, def_to_block, err]
_hoist_loop(c, def_to_block, loop, uses, tree) ==
    InsertHoisted(HoistFix([cfg |-> c, new_insts |-> <<>>, hoisted |-> <<>>,
                            invariant_defs |-> _defs_outside_loop(def_to_block, loop.blocks),
                            def_to_block |-> def_to_block, changed |-> TRUE, err |-> "none"],
                           loop, uses, tree),
                  loop.preheader)

(***************************************************************************)
(* CFGBuilder (src/ssa/cfg.py).  The builder object is the record B: the   *)
(* blocks made so far, its counters, its current block and its break and   *)
(* continue target stacks.  B.vals is the stack of the values returned by  *)
(* the _build_subexpression calls still in use; B.enclosing, B.loops and   *)
(* B.jumps record which loop bodies are being lowered, the loops lowered   *)
(* and the break and continue statements lowered.  The label BBn is n: the  *)
(* entry block is BB0 and the exit block BB1.                              *)
(***************************************************************************)
\* f"%{n}"
TmpName(n) == "%" \o ToString(n)

\* BasicBlock.__init__(label, symbol_table, meta)
NewBasicBlock(symbol_table, meta) ==
    [phi_nodes |-> <<>>, instructions |-> <<>>, preds |-> <<>>, succ |-> <<>>,
     meta |-> meta, symbol_table |-> symbol_table]

\* CFGBuilder.__init__
NewBuilder ==
    [blocks |-> <<>>, block_counter |-> 0, tmp_var_counter |-> 0, cur_block |-> NoBlock,
     break_targets |-> <<>>, continue_targets |-> <<>>, next_id |-> 1, vals |-> <<>>,
     err |-> "none", enclosing |-> <<>>, loops |-> <<>>, jumps |-> <<>>]

BuilderRaise(B, e) == [B EXCEPT !.err = IF @ = "none" THEN e ELSE @]

\* the new block has the label B.block_counter
_new_block(B, symbol_table, meta) ==
    [B EXCEPT !.blocks = (B.block_counter :> NewBasicBlock(symbol_table, meta)) @@ @,
              !.block_counter = @ + 1]

_switch_to_block(B, bb) == [B EXCEPT !.cur_block = bb]

\* the temporary is TmpName(B.tmp_var_counter)
_get_tmp_var(B) == [B EXCEPT !.tmp_var_counter = @ + 1]

\* BasicBlock.append on the current block; the new instruction object gets
\* the next identity
append(B, inst) ==
    [B EXCEPT !.blocks[B.cur_block].instructions = Append(@, [inst EXCEPT !.id = B.next_id]),
              !.next_id = @ + 1]

add_pred(blocks, bb, pred) ==
    IF Contains(blocks[bb].preds, pred) THEN blocks
    ELSE [blocks EXCEPT ![bb].preds = Append(@, pred)]

add_child(blocks, bb, child) ==
    IF Contains(blocks[bb].succ, child) THEN add_pred(blocks, child, bb)
    ELSE add_pred([blocks EXCEPT ![bb].succ = Append(@, child)], child, bb)

\* self.cur_block.add_child(child)
AddChild(B, child) == [B EXCEPT !.blocks = add_child(@, B.cur_block, child)]

\* a jump to target and the edge to it
JumpTo(B, target) == AddChild(append(B, UncondJump(0, target)), target)

Push(B, v) == [B EXCEPT !.vals = Append(@, v)]

Pop(B, n) == [B EXCEPT !.vals = SubSeq(@, 1, Len(@) - n)]

\* the k-th value from the top of the stack (0 is the top)
Top(B, k) == B.vals[Len(B.vals) - k]

\* the block does not end with a jump, a branch or a return
FallsThrough(B) ==
    LET ins == B.blocks[B.cur_block].instructions
    IN  ins = <<>> \/ ins[Len(ins)].op \notin {"jmp", "cmp", "return"}

RECURSIVE Product(_, _)
Product(dims, i) == IF i > Len(dims) THEN 1 ELSE dims[i] * Product(dims, i + 1)

\* strides[i] is the product of the dimensions after the i-th
Strides(dims) == [i \in 1..Len(dims) |-> Product(dims, i + 1)]

EmitBinary(B, op, name) ==
    Push(append(Pop(B, 2), Assign(0, Var(name, 0), OpBinary(op, Top(B, 1), Top(B, 0)))), Var(name, 0))

EmitUnary(B, op, name) ==
    Push(append(Pop(B, 1), Assign(0, Var(name, 0), OpUnary(op, Top(B, 0)))), Var(name, 0))

EmitCall(B, func, n, name) ==
    Push(append(Pop(B, n), Assign(0, Var(name, 0), OpCall(func, SubSeq(B.vals, Len(B.vals) - n + 1, Len(B.vals))))),
         Var(name, 0))

EmitLoad(B, name) ==
    Push(append(Pop(B, 1), Assign(0, Var(name, 0), OpLoad(Top(B, 0)))), Var(name, 0))

\* one index of an array access: the index value is on top of the stack, under
\* it the address so far (except for the first index)
IndexStep(B, stride, first) ==
    LET stride_tmp == Var(TmpName(B.tmp_var_counter), 0)
        addr_tmp == Var(TmpName(B.tmp_var_counter + 1), 0)
        S == append(_get_tmp_var(B), Assign(0, stride_tmp, OpBinary("*", Top(B, 0), Const(stride))))
    IN  IF first THEN Push(Pop(S, 1), stride_tmp)
        ELSE Push(Pop(append(_get_tmp_var(S), Assign(0, addr_tmp, OpBinary("+", Top(B, 1), stride_tmp))), 2),
                  addr_tmp)

\* the final address: the base alone, or the base plus the offset
AddressOf(B, indexed) ==
    LET addr_tmp == Var(TmpName(B.tmp_var_counter), 0)
    IN  IF indexed
        THEN Push(Pop(append(_get_tmp_var(B), Assign(0, addr_tmp, OpBinary("+", Top(B, 1), Top(B, 0)))), 2), addr_tmp)
        ELSE Push(Pop(append(_get_tmp_var(B), Assign(0, addr_tmp, OpValue(Top(B, 0)))), 1), addr_tmp)

RECURSIVE _build_subexpression(_, _, _)
RECURSIVE BuildTmp(_, _)
RECURSIVE BuildArgs(_, _, _)
RECURSIVE BuildIndices(_, _, _, _)
RECURSIVE _build_array_access(_, _, _)

\* self._build_subexpression(expr, self._get_tmp_var())
BuildTmp(B, expr) == _build_subexpression(_get_tmp_var(B), expr, TmpName(B.tmp_var_counter))

BuildArgs(B, args, i) ==
    IF i > Len(args) \/ B.err # "none" THEN B ELSE BuildArgs(BuildTmp(B, args[i]), args, i + 1)

BuildIndices(B, indices, strides, i) ==
    IF i > Len(indices) \/ B.err # "none" THEN B
    ELSE IF i > Len(strides) THEN BuilderRaise(B, "IndexError")
    ELSE BuildIndices(IndexStep(BuildTmp(B, indices[i]), strides[i], i = 1), indices, strides, i + 1)

_build_array_access(B, expr, name) ==
    LET t == IF expr.base.node = "Identifier"
             THEN lookup_variable(B.blocks[B.cur_block].symbol_table, expr.base.name)
             ELSE <<>>
    IN  IF t = <<>> \/ ~is_array(t[1]) THEN BuilderRaise(B, "AssertionError")
        ELSE EmitLoad(AddressOf(BuildIndices(BuildTmp(B, expr.base), expr.indices, Strides(t[1]), 1),
                                expr.indices # <<>>),
                      name)

_build_subexpression(B, expr, name) ==
    IF B.err # "none" THEN B
    ELSE CASE expr.node = "BinaryOp" ->
                EmitBinary(BuildTmp(BuildTmp(B, expr.left), expr.right), expr.operator, name)
           [] expr.node = "UnaryOp" -> EmitUnary(BuildTmp(B, expr.operand), expr.operator, name)
           [] expr.node = "Identifier" -> Push(B, Var(expr.name, 0))
           [] expr.node = "IntegerLiteral" -> Push(B, Const(expr.value))
           [] expr.node = "CallExpression" ->
                EmitCall(BuildArgs(B, expr.args, 1), expr.name, Len(expr.args), name)
           [] expr.node = "ArrayAccess" -> _build_array_access(B, expr, name)
           [] expr.node = "ArrayInit" -> Push(B, Var(name, 0))
           [] OTHER -> BuilderRaise(B, "ValueError")

\* the tail of _build_assignment and of _build_reassignment: the value is
\* assigned unless building it already defined the variable
FinishAssignment(B, name) ==
    IF B.err # "none" THEN B
    ELSE IF Top(B, 0).kind # "var" \/ Top(B, 0).name # name
         THEN append(Pop(B, 1), Assign(0, Var(name, 0), OpValue(Top(B, 0))))
         ELSE Pop(B, 1)

_build_assignment(B, stmt) ==
    IF lookup_variable(B.blocks[B.cur_block].symbol_table, stmt.name) = <<>> THEN BuilderRaise(B, "AssertionError")
    ELSE IF stmt.value.node = "ArrayInit" THEN append(B, ArrayInit(0, Var(stmt.name, 0)))
    ELSE FinishAssignment(_build_subexpression(B, stmt.value, stmt.name), stmt.name)

EmitStore(B) == IF B.err # "none" THEN B ELSE append(Pop(B, 2), Store(0, Top(B, 1), Top(B, 0)))

_build_array_element_assignment(B, lvalue, value) ==
    LET t == lookup_variable(B.blocks[B.cur_block].symbol_table, lvalue.base)
    IN  IF t = <<>> \/ ~is_array(t[1]) THEN BuilderRaise(B, "AssertionError")
        ELSE EmitStore(BuildTmp(AddressOf(BuildIndices(Push(B, Var(lvalue.base, 0)), lvalue.indices,
                                                       Strides(t[1]), 1),
                                          lvalue.indices # <<>>),
                                value))

_build_reassignment(B, stmt) ==
    IF stmt.lvalue.node = "LValueArrayAccess"
    THEN _build_array_element_assignment(B, stmt.lvalue, stmt.value)
    ELSE IF stmt.lvalue.node # "LValueIdentifier" THEN BuilderRaise(B, "AssertionError")
    ELSE FinishAssignment(_build_subexpression(B, stmt.value, stmt.lvalue.name), stmt.lvalue.name)

EmitCallStmt(B, func, n, name) ==
    IF B.err # "none" THEN B
    ELSE append(Pop(B, n), Assign(0, Var(name, 0), OpCall(func, SubSeq(B.vals, Len(B.vals) - n + 1, Len(B.vals)))))

_build_function_call(B, stmt) ==
    EmitCallStmt(BuildArgs(_get_tmp_var(B), stmt.args, 1), stmt.name, Len(stmt.args), TmpName(B.tmp_var_counter))

EmitReturn(B) == IF B.err # "none" THEN B ELSE append(Pop(B, 1), Return(0, <<Top(B, 0)>>))

\* the return, the edge to the exit block, and a fresh "after return" block
\* that becomes the current one
AfterReturn(B) ==
    IF B.err # "none" THEN B
    ELSE _switch_to_block(_new_block(AddChild(B, 1), B.blocks[B.cur_block].symbol_table, "after return"),
                          B.block_counter)

_build_return(B, stmt) ==
    IF stmt.value # <<>> THEN AfterReturn(EmitReturn(BuildTmp(B, stmt.value[1])))
    ELSE AfterReturn(append(B, Return(0, <<>>)))

LogJump(B, kind, target) ==
    [B EXCEPT !.jumps = Append(@, [kind |-> kind, from |-> B.cur_block, target |-> target,
                                   enclosing |-> B.enclosing])]

\* a break that leaves the outermost loop
_build_break_to_outermost_target(B) ==
    IF B.break_targets = <<>> THEN BuilderRaise(B, "AssertionError")
    ELSE LogJump(append(AddChild(B, B.break_targets[1]), UncondJump(0, B.break_targets[1])),
                 "break", B.break_targets[1])

_build_break(B) ==
    IF B.break_targets = <<>> THEN BuilderRaise(B, "AssertionError")
    ELSE LogJump(append(AddChild(B, B.break_targets[Len(B.break_targets)]),
                        UncondJump(0, B.break_targets[Len(B.break_targets)])),
                 "break", B.break_targets[Len(B.break_targets)])

_build_continue(B) ==
    IF B.continue_targets = <<>> THEN B
    ELSE LogJump(append(AddChild(B, B.continue_targets[Len(B.continue_targets)]),
                        UncondJump(0, B.continue_targets[Len(B.continue_targets)])),
                 "continue", B.continue_targets[Len(B.continue_targets)])

RECURSIVE _build_statement(_, _)
RECURSIVE BuildStatements(_, _, _)
RECURSIVE _build_condition(_, _)
RECURSIVE _build_for_loop(_, _)
RECURSIVE _build_unconditional_loop(_, _)

_build_block(B, syntax_block) == BuildStatements(B, syntax_block.statements, 1)

BuildStatements(B, statements, i) ==
    IF i > Len(statements) \/ B.err # "none" THEN B
    ELSE BuildStatements(_build_statement(B, statements[i]), statements, i + 1)

_build_statement(B, stmt) ==
    CASE stmt.node = "Assignment" -> _build_assignment(B, stmt)
      [] stmt.node = "Reassignment" -> _build_reassignment(B, stmt)
      [] stmt.node = "Condition" -> _build_condition(B, stmt)
      [] stmt.node = "ForLoop" -> _build_for_loop(B, stmt)
      [] stmt.node = "UnconditionalLoop" -> _build_unconditional_loop(B, stmt)
      [] stmt.node = "FunctionCall" -> _build_function_call(B, stmt)
      [] stmt.node = "Return" -> _build_return(B, stmt)
      [] stmt.node = "Break" -> _build_break(B)
      [] stmt.node = "Continue" -> _build_continue(B)
      [] OTHER -> B

\* _build_condition up to the branch: c is the label of the then block and
\* c + 1 that of the merge block; the condition value is on top of the stack
CondBranch(B, stmt, c) ==
    IF B.err # "none" THEN B
    ELSE IF stmt.else_block = <<>>
    THEN AddChild(append(Pop(B, 1), Cmp(0, Top(B, 0), Const(0), c + 1, c)), c + 1)
    ELSE _switch_to_block(
             AddChild(append(_new_block(Pop(B, 1), stmt.else_block[1].symbol_table, "else"),
                             Cmp(0, Top(B, 0), Const(0), c + 2, c)),
                      c + 2),
             c + 2)

\* after the else arm: only an arm that falls through jumps to the merge block
\* and makes the branching block current again
CondAfterElse(B, c, old_block) ==
    IF B.err # "none" THEN B
    ELSE IF FallsThrough(B) THEN _switch_to_block(append(AddChild(B, c + 1), UncondJump(0, c + 1)), old_block)
    ELSE B

CondElse(B, stmt, c, old_block) ==
    IF B.err # "none" \/ stmt.else_block = <<>> THEN B
    ELSE CondAfterElse(_build_block(B, stmt.else_block[1]), c, old_block)

\* self.cur_block.add_child(then_block); self._switch_to_block(then_block)
CondThen(B, c) == IF B.err # "none" THEN B ELSE _switch_to_block(AddChild(B, c), c)

CondMerge(B, c) ==
    IF B.err # "none" THEN B
    ELSE _switch_to_block(IF FallsThrough(B) THEN append(AddChild(B, c + 1), UncondJump(0, c + 1)) ELSE B,
                          c + 1)

_build_condition(B, stmt) ==
    CondMerge(
        _build_block(
            CondThen(
                CondElse(
                    CondBranch(
                        BuildTmp(_new_block(_new_block(B, stmt.then_block.symbol_table, "then"),
                                            B.blocks[B.cur_block].symbol_table, "merge"),
                                 stmt.condition),
                        stmt, B.block_counter),
                    stmt, B.block_counter, B.cur_block),
                B.block_counter),
            stmt.then_block),
        B.block_counter)

RECURSIVE BuildAssignments(_, _, _)
BuildAssignments(B, stmts, i) ==
    IF i > Len(stmts) \/ B.err # "none" THEN B
    ELSE BuildAssignments(_build_assignment(B, stmts[i]), stmts, i + 1)

RECURSIVE BuildReassignments(_, _, _)
BuildReassignments(B, stmts, i) ==
    IF i > Len(stmts) \/ B.err # "none" THEN B
    ELSE BuildReassignments(_build_reassignment(B, stmts[i]), stmts, i + 1)

\* the six blocks of a counted loop: c condition check, c + 1 preheader,
\* c + 2 body, c + 3 update, c + 4 tail, c + 5 exit
ForLoopBlocks(B, body_st) ==
    _new_block(
        _new_block(
            _new_block(
                _new_block(
                    _new_block(_new_block(B, body_st, "condition check"), body_st, "loop preheader"),
                    body_st, "loop body"),
                body_st, "loop update"),
            body_st, "loop tail"),
        B.blocks[B.cur_block].symbol_table, "loop exit")

\* the branch of the condition-check block, then the preheader
ForLoopEnter(B, c) ==
    IF B.err # "none" THEN B
    ELSE JumpTo(_switch_to_block(AddChild(AddChild(append(Pop(B, 1), Cmp(0, Top(B, 0), Const(0), c + 5, c + 1)),
                                                   c + 1),
                                          c + 5),
                                 c + 1),
                c + 2)

\* the targets are pushed and the body block becomes current
ForLoopBody(B, c) ==
    IF B.err # "none" THEN B
    ELSE [_switch_to_block(B, c + 2) EXCEPT !.break_targets = Append(@, c + 4),
                                            !.continue_targets = Append(@, c + 3),
                                            !.enclosing = Append(@, c)]

\* after the body: the jump to the update block, which becomes current
LoopUpdate(B, update_block) ==
    IF B.err # "none" THEN B
    ELSE [_switch_to_block(IF FallsThrough(B) THEN append(AddChild(B, update_block), UncondJump(0, update_block))
                           ELSE B,
                           update_block)
          EXCEPT !.enclosing = SubSeq(@, 1, Len(@) - 1)]

PopTargets(B) ==
    [B EXCEPT !.break_targets = SubSeq(@, 1, Len(@) - 1),
              !.continue_targets = SubSeq(@, 1, Len(@) - 1)]

\* the branch of the update block, the pop of the targets, the tail and the exit
ForLoopLeave(B, c) ==
    IF B.err # "none" THEN B
    ELSE _switch_to_block(
             JumpTo(_switch_to_block(
                        PopTargets(AddChild(AddChild(append(Pop(B, 1), Cmp(0, Top(B, 0), Const(0), c + 4, c + 2)),
                                                     c + 2),
                                            c + 4)),
                        c + 4),
                    c + 5),
             c + 5)

LogLoop(B, kind, first, break_targets, continue_targets) ==
    IF B.err # "none" THEN B
    ELSE [B EXCEPT !.loops = Append(@, [kind |-> kind, first |-> first, last |-> B.block_counter - 1,
                                        break_before |-> break_targets,
                                        continue_before |-> continue_targets,
                                        break_after |-> B.break_targets,
                                        continue_after |-> B.continue_targets])]

_build_for_loop(B, stmt) ==
    LogLoop(
        ForLoopLeave(
            BuildTmp(
                BuildReassignments(
                    LoopUpdate(
                        _build_block(
                            ForLoopBody(
                                ForLoopEnter(
                                    BuildTmp(
                                        BuildAssignments(
                                            _switch_to_block(JumpTo(ForLoopBlocks(B, stmt.body.symbol_table),
                                                                    B.block_counter),
                                                             B.block_counter),
                                            stmt.init, 1),
                                        stmt.condition),
                                    B.block_counter),
                                B.block_counter),
                            stmt.body),
                        B.block_counter + 3),
                    stmt.update, 1),
                stmt.condition),
            B.block_counter),
        "for", B.block_counter, B.break_targets, B.continue_targets)

\* the five blocks of an unconditional loop: c preheader, c + 1 body,
\* c + 2 update, c + 3 tail, c + 4 exit
UncondLoopBlocks(B, body_st) ==
    _new_block(
        _new_block(
            _new_block(
                _new_block(_new_block(B, body_st, "uncond loop preheader"), body_st, "uncond loop body"),
                body_st, "uncond loop update"),
            body_st, "uncond loop tail"),
        B.blocks[B.cur_block].symbol_table, "uncond loop exit")

UncondLoopBody(B, c) ==
    [_switch_to_block(JumpTo(_switch_to_block(JumpTo(B, c), c), c + 1), c + 1)
     EXCEPT !.break_targets = Append(@, c + 3),
            !.continue_targets = Append(@, c + 2),
            !.enclosing = Append(@, c)]

\* the targets are popped right after the body
UncondLoopAfterBody(B, c) == IF B.err # "none" THEN B ELSE LoopUpdate(PopTargets(B), c + 2)

UncondLoopLeave(B, c) ==
    IF B.err # "none" THEN B
    ELSE _switch_to_block(JumpTo(_switch_to_block(JumpTo(B, c + 1), c + 3), c + 4), c + 4)

_build_unconditional_loop(B, stmt) ==
    LogLoop(
        UncondLoopLeave(
            UncondLoopAfterBody(
                _build_block(UncondLoopBody(UncondLoopBlocks(B, stmt.body.symbol_table), B.block_counter),
                             stmt.body),
                B.block_counter),
            B.block_counter),
        "uncond", B.block_counter, B.break_targets, B.continue_targets)

RECURSIVE GetArguments(_, _, _)
GetArguments(B, args, i) ==
    IF i > Len(args) THEN B
    ELSE Eager(B, GetArguments(append(B, GetArgument(0, Var(args[i].name, 0), i - 1)), args, i + 1))

\* if not self.cur_block.succ: self.cur_block.add_child(exit_block)
FunctionEnd(B) ==
    IF B.err = "none" /\ B.blocks[B.cur_block].succ = <<>> THEN AddChild(B, 1) ELSE B

\* the builder after _build_function: its blocks are those of the CFG
\* CFG(func.name, entry, exit) it returns
_build_function(func) ==
    FunctionEnd(
        _build_block(
            GetArguments(
                _switch_to_block(_new_block(_new_block(NewBuilder, func.body.symbol_table, "entry"),
                                            func.body.symbol_table, "exit"),
                                 0),
                func.args, 1),
            func.body))

(***************************************************************************)
(* SSABuilder (src/ssa/ssa.py) and the dominance frontier                  *)
(* (src/ssa/dominance.py).  The builder object is the record S: the CFG it *)
(* rewrites, the dominator tree, DF, live_in, the version stacks and       *)
(* counters, ptr_info and the exception raised, if any.                    *)
(***************************************************************************)
\* the walk `while d != idom_tree.idom[node]` with its assertions
RECURSIVE DFWalk(_, _, _, _)
DFWalk(D, tree, d, node) ==
    IF d = NoBlock THEN [D EXCEPT !.err = "AssertionError"]
    ELSE IF d = tree.idom[node] THEN D
    ELSE DFWalk([D EXCEPT !.DF[d] = @ \cup {node}], tree, tree.idom[d], node)

\* the body of `for pred in node.preds`; idom_tree.idom[pred] raises KeyError
\* for a predecessor that is not in the tree
DFPred(D, tree, node, pred) ==
    IF D.err # "none" \/ pred \in tree.dominators[node] THEN D
    ELSE IF pred \notin DOMAIN tree.idom THEN [D EXCEPT !.err = "KeyError"]
    ELSE DFWalk([D EXCEPT !.DF[pred] = @ \cup {node}], tree, tree.idom[pred], node)

RECURSIVE DFPreds(_, _, _, _, _)
DFPreds(D, tree, node, preds, i) ==
    IF D.err # "none" \/ i > Len(preds) THEN D
    ELSE DFPreds(DFPred(D, tree, node, preds[i]), tree, node, preds, i + 1)

RECURSIVE DFNodes(_, _, _, _, _)
DFNodes(D, c, tree, order, k) ==
    IF D.err # "none" \/ k > Len(order) THEN D
    ELSE DFNodes(DFPreds(D, tree, order[k], c.blocks[order[k]].preds, 1), c, tree, order, k + 1)

\* D is [DF, err]; DF is a defaultdict(set)
compute_dominance_frontier_graph(c, tree) ==
    DFNodes([DF |-> [b \in DOMAIN tree.idom |-> {}], err |-> "none"], c, tree, IterCFG(c), 1)

\* use_val of _collect_uses_defs; U is [uses, defs]
use_val(U, val) ==
    IF val.kind = "var" /\ val.name \notin U.defs THEN [U EXCEPT !.uses = @ \cup {val.name}] ELSE U

RECURSIVE UseVals(_, _, _)
UseVals(U, vals, i) ==
    IF i > Len(vals) THEN U ELSE Eager(U, UseVals(use_val(U, vals[i]), vals, i + 1))

\* one instruction of _collect_uses_defs: the address of a Store counts as a
\* use whether or not the block defined it before
CollectInst(U, inst) ==
    CASE inst.op = "assign" ->
            [UseVals(U, IF inst.rhs.type \in {"load", "binary", "unary", "call", "value"}
                        THEN inst.rhs.args ELSE <<>>, 1)
             EXCEPT !.defs = @ \cup {inst.lhs.name}]
      [] inst.op \in {"cmp", "return"} -> UseVals(U, inst.args, 1)
      [] inst.op \in {"array_init", "getarg"} -> [U EXCEPT !.defs = @ \cup {inst.lhs.name}]
      [] inst.op = "store" -> use_val([U EXCEPT !.uses = @ \cup {inst.args[1].name}], inst.args[2])
      [] OTHER -> U

RECURSIVE CollectInsts(_, _, _)
CollectInsts(U, insts, i) ==
    IF i > Len(insts) THEN U ELSE Eager(U, CollectInsts(CollectInst(U, insts[i]), insts, i + 1))

_collect_uses_defs(c, bb) == CollectInsts([uses |-> {}, defs |-> {}], c.blocks[bb].instructions, 1)

\* the body of `for bb in self.cfg` of the liveness loop; L is [live_in, live_out, changed]
LivenessBlock(L, c, block_ud, bb) ==
    LET new_out == UNION {L.live_in[succ] : succ \in Range(c.blocks[bb].succ)}
        new_in == block_ud[bb].uses \cup (new_out \ block_ud[bb].defs)
    IN  IF new_out # L.live_out[bb] \/ new_in # L.live_in[bb]
        THEN [live_in |-> [L.live_in EXCEPT ![bb] = new_in],
              live_out |-> [L.live_out EXCEPT ![bb] = new_out],
              changed |-> TRUE]
        ELSE L

RECURSIVE LivenessPass(_, _, _, _, _)
LivenessPass(L, c, block_ud, order, k) ==
    IF k > Len(order) THEN L
    ELSE Eager(L, LivenessPass(LivenessBlock(L, c, block_ud, order[k]), c, block_ud, order, k + 1))

RECURSIVE LivenessFix(_, _, _, _)
LivenessAgain(L, c, block_ud, order) ==
    IF L.changed THEN LivenessFix(L, c, block_ud, order) ELSE L

\* while changed: ...
LivenessFix(L, c, block_ud, order) ==
    LivenessAgain(LivenessPass([L EXCEPT !.changed = FALSE], c, block_ud, order, 1), c, block_ud, order)

_compute_liveness(c) ==
    LivenessFix([live_in |-> [bb \in Reachable(c) |-> {}],
                 live_out |-> [bb \in Reachable(c) |-> {}],
                 changed |-> TRUE],
                c, [bb \in Reachable(c) |-> _collect_uses_defs(c, bb)], IterCFG(c))

\* isinstance(i, (InstAssign, InstGetArgument, InstArrayInit)) and i.lhs.name == var
DefinesName(inst, var) == inst.op \in {"assign", "getarg", "array_init"} /\ inst.lhs.name = var

HasDefOf(c, bb, var) == \E i \in DOMAIN c.blocks[bb].instructions : DefinesName(c.blocks[bb].instructions[i], var)

\* the left-hand names of the defining instructions of the blocks of order,
\* in the order in which the loop over idom_tree.traverse() meets them
RECURSIVE DefSequence(_, _, _)
DefSequence(c, order, k) ==
    IF k > Len(order) THEN <<>>
    ELSE LET defs == SelectSeq(c.blocks[order[k]].instructions,
                               LAMBDA inst : inst.op \in {"assign", "getarg", "array_init"})
         IN  [i \in DOMAIN defs |-> defs[i].lhs.name] \o DefSequence(c, order, k + 1)

\* the keys of a dict in insertion order: the first occurrences in s
FirstOccurrences(s) ==
    LET first == SortedSeq({i \in DOMAIN s : \A j \in 1..(i - 1) : s[j] # s[i]})
    IN  [k \in DOMAIN first |-> s[first[k]]]

\* the keys of defs_by_var in insertion order
DefNames(c, order) == FirstOccurrences(DefSequence(c, order, 1))

\* the worklist of _put_phis for one variable: the blocks that get a phi
RECURSIVE PhiWork(_, _, _, _, _, _)
PhiWork(c, DF, live_in, var, work, has_phi) ==
    IF work = <<>> THEN has_phi
    ELSE Eager(has_phi, LET n == work[Len(work)]
             ys == {y \in DF[n] : y \notin has_phi /\ var \in live_in[y]}
         IN  PhiWork(c, DF, live_in, var,
                     SubSeq(work, 1, Len(work) - 1) \o SortedSeq({y \in ys : ~HasDefOf(c, y, var)}),
                     has_phi \cup ys))

\* BasicBlock.insert_phi in the blocks ys, in turn; P is [cfg, next_id]
RECURSIVE InsertPhis(_, _, _, _)
InsertPhis(P, var, ys, k) ==
    IF k > Len(ys) THEN P
    ELSE Eager(P, InsertPhis(
             IF \E i \in DOMAIN P.cfg.blocks[ys[k]].phi_nodes : P.cfg.blocks[ys[k]].phi_nodes[i].lhs.name = var
             THEN P
             ELSE [cfg |-> [P.cfg EXCEPT !.blocks[ys[k]].phi_nodes = Append(@, Phi(P.next_id, Var(var, 0), <<>>))],
                   next_id |-> P.next_id + 1],
             var, ys, k + 1))

RECURSIVE PutPhisVars(_, _, _, _, _, _)
PutPhisVars(P, DF, live_in, order, names, k) ==
    IF k > Len(names) THEN P
    ELSE Eager(P, PutPhisVars(
             InsertPhis(P, names[k],
                        SortedSeq(PhiWork(P.cfg, DF, live_in, names[k],
                                          SortedSeq({bb \in Range(order) : HasDefOf(P.cfg, bb, names[k])}), {})),
                        1),
             DF, live_in, order, names, k + 1))

\* order is self.idom_tree.traverse()
_put_phis(P, DF, live_in, order) ==
    PutPhisVars(P, DF, live_in, order, DefNames(P.cfg, order), 1)

\* the renaming state R: the CFG being rewritten, versions (a defaultdict of
\* stacks), version_counter, ptr_info, and lhs_base: the base pointer of the
\* left-hand side of the Assign that defines a temporary.  CFGBuilder hands
\* that SSAVariable object on as the operand of the instruction using the
\* temporary (tmps are the names concerned), so the operand has the base
\* pointer that _new_version gave the left-hand side.
NewRename(c, tmps) ==
    [cfg |-> c, versions |-> <<>>, version_counter |-> <<>>, ptr_info |-> <<>>, lhs_base |-> <<>>,
     tmps |-> tmps, err |-> "none"]

\* assert len(self.versions[var.name]) > 0
HasVersion(R, val) ==
    val.kind # "var" \/ (val.name \in DOMAIN R.versions /\ R.versions[val.name] # <<>>)

\* _rename_ssa_val / _rename_var
_rename_var(R, val) ==
    IF val.kind # "var" THEN val
    ELSE [val EXCEPT !.version = R.versions[val.name][Len(R.versions[val.name])],
                     !.base_pointer = IF val.name \in DOMAIN R.ptr_info THEN R.ptr_info[val.name]
                                      ELSE IF val.name \in DOMAIN R.lhs_base THEN R.lhs_base[val.name]
                                      ELSE @]

\* the operands that _rename_inst renames, and the instruction with them renamed
RenamedOperands(inst) ==
    CASE inst.op = "assign" -> inst.rhs.args
      [] inst.op \in {"cmp", "return", "store"} -> inst.args
      [] OTHER -> <<>>

WithOperands(R, inst) ==
    CASE inst.op = "assign" -> [inst EXCEPT !.rhs.args = [i \in DOMAIN @ |-> _rename_var(R, @[i])]]
      [] inst.op \in {"cmp", "return", "store"} -> [inst EXCEPT !.args = [i \in DOMAIN @ |-> _rename_var(R, @[i])]]
      [] OTHER -> inst

\* the base pointer of the first value that has one
FirstBase(vals) ==
    LET with == SelectSeq(vals, LAMBDA v : v.kind = "var" /\ v.base_pointer # NoBase)
    IN  IF with = <<>> THEN NoBase ELSE with[1].base_pointer

\* iter_vars_from_rhs of _new_version
iter_vars_from_rhs(rhs) ==
    IF rhs.type \in {"binary", "unary", "value"}
    THEN SelectSeq(rhs.args, LAMBDA v : v.kind = "var" /\ v.version # 0)
    ELSE <<>>

\* the base pointer _new_version leaves in the left-hand side of inst, which
\* gets the version ver in block bb
NewBase(R, inst, bb, ver) ==
    LET type_info == lookup_variable(R.cfg.blocks[bb].symbol_table, inst.lhs.name)
    IN  IF type_info = <<>>
        THEN CASE inst.op = "assign" -> FirstBase(iter_vars_from_rhs(inst.rhs))
               [] inst.op = "phi" -> FirstBase(Operands(inst))
               [] OTHER -> NoBase
        ELSE IF is_array(type_info[1]) THEN <<inst.lhs.name, ver>>
        ELSE NoBase

\* a counter that restarts from the version on top of the stack of the name
Counter_from_current_version(R, name) ==
    IF name \in DOMAIN R.versions /\ R.versions[name] # <<>> THEN R.versions[name][Len(R.versions[name])] ELSE 0

Counter(R, name) == IF name \in DOMAIN R.version_counter THEN R.version_counter[name] ELSE 0

Stack(R, name) == IF name \in DOMAIN R.versions THEN R.versions[name] ELSE <<>>

\* the bookkeeping of _new_version: lhs is the renamed left-hand side
Versioned(R, inst, bb, lhs) ==
    LET type_info == lookup_variable(R.cfg.blocks[bb].symbol_table, lhs.name)
    IN  [R EXCEPT !.version_counter = (lhs.name :> lhs.version) @@ @,
                  !.versions = (lhs.name :> Append(Stack(R, lhs.name), lhs.version)) @@ @,
                  !.ptr_info = IF type_info # <<>> /\ is_array(type_info[1])
                               THEN (lhs.name :> <<lhs.name, lhs.version>>) @@ @ ELSE @,
                  !.lhs_base = IF inst.op = "assign" /\ lhs.name \in R.tmps
                               THEN (lhs.name :> lhs.base_pointer) @@ @ ELSE @]

\* the left-hand side after _new_version
_new_version(R, inst, bb) ==
    [inst.lhs EXCEPT !.version = Counter(R, inst.lhs.name) + 1,
                     !.base_pointer = NewBase(R, inst, bb, Counter(R, inst.lhs.name) + 1)]

\* _rename_inst on the k-th phi of bb
RenamePhi(R, bb, k) ==
    Versioned([R EXCEPT !.cfg.blocks[bb].phi_nodes[k].lhs = _new_version(R, R.cfg.blocks[bb].phi_nodes[k], bb)],
              R.cfg.blocks[bb].phi_nodes[k], bb, _new_version(R, R.cfg.blocks[bb].phi_nodes[k], bb))

\* _rename_inst on an instruction whose operands are renamed already
RenameLhs(R, inst, bb, k) ==
    IF ~IsDef(inst) THEN [R EXCEPT !.cfg.blocks[bb].instructions[k] = inst]
    ELSE Versioned([R EXCEPT !.cfg.blocks[bb].instructions[k] = [inst EXCEPT !.lhs = _new_version(R, inst, bb)]],
                   inst, bb, _new_version(R, inst, bb))

\* _rename_inst on the k-th instruction of bb
_rename_inst(R, bb, k) ==
    IF \E i \in DOMAIN RenamedOperands(R.cfg.blocks[bb].instructions[k]) :
           ~HasVersion(R, RenamedOperands(R.cfg.blocks[bb].instructions[k])[i])
    THEN [R EXCEPT !.err = "AssertionError"]
    ELSE RenameLhs(R, WithOperands(R, R.cfg.blocks[bb].instructions[k]), bb, k)

RECURSIVE RenamePhis(_, _, _)
RenamePhis(R, bb, k) ==
    IF k > Len(R.cfg.blocks[bb].phi_nodes) THEN R
    ELSE RenamePhis(RenamePhi(R, bb, k), bb, k + 1)

RECURSIVE RenameInsts(_, _, _)
RenameInsts(R, bb, k) ==
    IF k > Len(R.cfg.blocks[bb].instructions) \/ R.err # "none" THEN R
    ELSE RenameInsts(_rename_inst(R, bb, k), bb, k + 1)

\* phi_inst.rhs[bb.label] = value
SetIncoming(rhs, label, value) ==
    IF \E i \in DOMAIN rhs : rhs[i][1] = label
    THEN [i \in DOMAIN rhs |-> IF rhs[i][1] = label THEN <<label, value>> ELSE rhs[i]]
    ELSE Append(rhs, <<label, value>>)

\* the k-th phi of succ gets its operand for bb: nothing for a variable that
\* has no stack yet, IndexError for one whose stack is empty
FillPhi(R, bb, succ, k) ==
    LET phi == R.cfg.blocks[succ].phi_nodes[k]
    IN  IF phi.lhs.name \notin DOMAIN R.versions THEN R
        ELSE IF R.versions[phi.lhs.name] = <<>> THEN [R EXCEPT !.err = "IndexError"]
        ELSE [R EXCEPT !.cfg.blocks[succ].phi_nodes[k].rhs =
                  SetIncoming(@, bb, Ptr(phi.lhs.name,
                                         R.versions[phi.lhs.name][Len(R.versions[phi.lhs.name])],
                                         phi.lhs.base_pointer))]

RECURSIVE FillPhis(_, _, _, _)
FillPhis(R, bb, succ, k) ==
    IF k > Len(R.cfg.blocks[succ].phi_nodes) \/ R.err # "none" THEN R
    ELSE FillPhis(FillPhi(R, bb, succ, k), bb, succ, k + 1)

RECURSIVE FillSuccs(_, _, _)
FillSuccs(R, bb, i) ==
    IF i > Len(R.cfg.blocks[bb].succ) \/ R.err # "none" THEN R
    ELSE FillSuccs(FillPhis(R, bb, R.cfg.blocks[bb].succ[i], 1), bb, i + 1)

\* block_new_assign_count[name]
NewAssignCount(c, bb, name) ==
    Cardinality({i \in DOMAIN c.blocks[bb].phi_nodes : c.blocks[bb].phi_nodes[i].lhs.name = name})
    + Cardinality({i \in DOMAIN c.blocks[bb].instructions :
                      IsDef(c.blocks[bb].instructions[i]) /\ c.blocks[bb].instructions[i].lhs.name = name})

\* self.versions[var] = self.versions[var][:-c]
PopVersions(R, bb) ==
    IF R.err # "none" THEN R
    ELSE [R EXCEPT !.versions = [n \in DOMAIN @ |-> SubSeq(@[n], 1, Len(@[n]) - NewAssignCount(R.cfg, bb, n))]]

RECURSIVE _rename_helper(_, _, _)
RECURSIVE RenameChildren(_, _, _, _)
RenameChildren(R, tree, children, i) ==
    IF i > Len(children) \/ R.err # "none" THEN R
    ELSE RenameChildren(_rename_helper(R, tree, children[i]), tree, children, i + 1)

_rename_helper(R, tree, bb) ==
    PopVersions(RenameChildren(FillSuccs(RenameInsts(RenamePhis(R, bb, 1), bb, 1), bb, 1),
                               tree, tree.reversed_idom[bb], 1),
                bb)

\* appends a GetArgument per entry of cfg.args to the entry block; P is [cfg, next_id]
RECURSIVE _insert_get_argument_instructions(_, _, _)
_insert_get_argument_instructions(P, args, i) ==
    IF i > Len(args) THEN P
    ELSE Eager(P, _insert_get_argument_instructions(
             [cfg |-> [P.cfg EXCEPT !.blocks[P.cfg.entry].instructions =
                                        Append(@, GetArgument(P.next_id, Var(args[i].name, 0), i - 1))],
              next_id |-> P.next_id + 1],
             args, i + 1))

\* no dominator tree yet
NoTree == [entry |-> NoBlock, dominators |-> <<>>, idom |-> <<>>, reversed_idom |-> <<>>]

(***************************************************************************)
(* BlockCleanup (src/optimizations/block_cleanup.py)                       *)
(***************************************************************************)
_is_trivial_jump_block(c, bb) ==
    /\ bb # c.entry /\ bb # c.exit
    /\ Len(c.blocks[bb].instructions) = 1
    /\ c.blocks[bb].phi_nodes = <<>>
    /\ c.blocks[bb].instructions[1].op = "jmp"
    /\ Len(c.blocks[bb].preds) = 1 /\ Len(c.blocks[bb].succ) = 1
    /\ Len(c.blocks[c.blocks[bb].preds[1]].succ) = 1
    /\ c.blocks[bb].preds[1] # bb /\ c.blocks[bb].succ[1] # bb

\* the phi loop of _remove_block: the entry of bb goes to the end of the map
\* under the label of pred, unless pred has an entry already
MovePhiEntry(phi, bb, pred) ==
    IF bb \notin {phi.rhs[i][1] : i \in DOMAIN phi.rhs} THEN phi
    ELSE LET incoming_val == phi.rhs[CHOOSE i \in DOMAIN phi.rhs : phi.rhs[i][1] = bb][2]
             popped == PhiPop(phi, bb)
         IN  IF pred \in {popped.rhs[i][1] : i \in DOMAIN popped.rhs} THEN popped
             ELSE [popped EXCEPT !.rhs = Append(@, <<pred, incoming_val>>)]

_remove_block(c, bb) ==
    LET pred == c.blocks[bb].preds[1]
        succ == c.blocks[bb].succ[1]
        c1 == [c EXCEPT !.blocks[succ].phi_nodes = [k \in DOMAIN @ |-> MovePhiEntry(@[k], bb, pred)]]
        c2 == IF Contains(c1.blocks[pred].succ, bb)
              THEN [c1 EXCEPT !.blocks[pred].succ = RemoveFirst(@, bb)] ELSE c1
        c3 == IF Contains(c2.blocks[succ].preds, bb)
              THEN [c2 EXCEPT !.blocks[succ].preds = RemoveFirst(@, bb)] ELSE c2
        c4 == [c3 EXCEPT !.blocks = add_child(@, pred, succ)]
    IN  [c4 EXCEPT !.blocks[bb].preds = <<>>, !.blocks[bb].succ = <<>>]

\* the blocks that `for bb in cfg` yields up to the first trivial jump block
TrivialJumpBlocks(c) ==
    SelectSeq(IterCFG(c), LAMBDA bb : _is_trivial_jump_block(c, bb))

(***************************************************************************)
(* Concrete execution of the IR: the reference the analyses are sound      *)
(* against.  Integers are mathematical; a Call, a Load, an argument and an *)
(* array address yield an arbitrary input value.                           *)
(***************************************************************************)
ValueDefined(env, v) == v.kind = "const" \/ (v.kind = "var" /\ as_tuple(v) \in DOMAIN env)

ValueOf(env, v) == IF v.kind = "const" THEN v.value ELSE env[as_tuple(v)]

\* a binary operator on two integers; {} stands for a fault (division by zero)
ConcreteBinary(op, x, y) ==
    CASE op = "+" -> {x + y}
      [] op = "-" -> {x - y}
      [] op = "*" -> {x * y}
      [] op = "/" -> IF y = 0 THEN {} ELSE {PyFloorDiv(x, y)}
      [] op = "%" -> IF y = 0 THEN {} ELSE {PyMod(x, y)}
      [] op = "==" -> {Bool01(x = y)}
      [] op = "!=" -> {Bool01(x # y)}
      [] op = "<" -> {Bool01(x < y)}
      [] op = "<=" -> {Bool01(x <= y)}
      [] op = ">" -> {Bool01(x > y)}
      [] op = ">=" -> {Bool01(x >= y)}
      [] op = "&&" -> {Bool01(x # 0 /\ y # 0)}
      [] op = "||" -> {Bool01(x # 0 \/ y # 0)}
      [] OTHER -> {}

ConcreteUnary(op, x) ==
    CASE op = "-" -> {0 - x}
      [] op = "!" -> {Bool01(x = 0)}
      [] OTHER -> {}

\* the values an Assign can give its left-hand side, given the input values
ConcreteRhs(env, rhs, inputs) ==
    CASE rhs.type = "binary" -> ConcreteBinary(rhs.opr, ValueOf(env, rhs.args[1]), ValueOf(env, rhs.args[2]))
      [] rhs.type = "unary" -> ConcreteUnary(rhs.opr, ValueOf(env, rhs.args[1]))
      [] rhs.type = "value" -> {ValueOf(env, rhs.args[1])}
      [] OTHER -> inputs

\* control enters block b from block prev: the phis of b take, all at once, the
\* value of their operand for prev; a phi without such an operand, or with an
\* undefined one, leaves its variable undefined
EnterBlock(c, r, prev, b) ==
    LET phis == c.blocks[b].phi_nodes
        Incoming(phi) == SelectSeq(phi.rhs, LAMBDA e : e[1] = prev)
        defined == {i \in DOMAIN phis : Incoming(phis[i]) # <<>> /\ ValueDefined(r.env, Incoming(phis[i])[1][2])}
        phikeys == {as_tuple(phis[i].lhs) : i \in DOMAIN phis}
        base == [k \in DOMAIN r.env \ phikeys |-> r.env[k]]
        new == [k \in {as_tuple(phis[i].lhs) : i \in defined} |->
                   LET i == CHOOSE j \in defined : as_tuple(phis[j].lhs) = k
                   IN  ValueOf(r.env, Incoming(phis[i])[1][2])]
    IN  [r EXCEPT !.block = b, !.idx = 1, !.env = new @@ base,
                  !.edges = @ \cup {<<prev, b>>}, !.blocks = @ \cup {b}]

RunOff == [status |-> "off", block |-> NoBlock, idx |-> 0, env |-> <<>>, steps |-> 0, edges |-> {}, blocks |-> {}]

RunStop(r, status) == [r EXCEPT !.status = status]

(***************************************************************************)
(* The driver: a program of the corpus, then optimisation passes one after *)
(* the other (main.py, tests/base.py: assert_ir runs p().run(main) for     *)
(* each configured pass).                                                  *)
(***************************************************************************)
\* how many passes a run applies at most
MaxPasses == 2

\* input values of a concrete execution are drawn from 0..MaxInput
MaxInput == 1

\* a concrete execution is followed for at most MaxExecSteps instructions
MaxExecSteps == 24

VARIABLES
    prog,   \* the name of the compiled program
    builder, \* the CFGBuilder object that lowered the program, if the model ran it
    ssa,    \* the SSABuilder object: idom_tree, DF and the exception raised, if any
    cfg,    \* the CFG the passes mutate in place
    cfg0,   \* the CFG as it was when the current (or last) pass started
    pc,     \* "idle" between passes, the phase of the running pass, or "failed"
    hist,   \* the passes that have completed, in order
    err,    \* <<pass, exception>> once a pass has raised, else <<>>
    sccp,   \* the state of the SCCP object and of the iterator of its fold loop
    dce,    \* the state of the DCE object: live_insts, live_vars, var_work
    licm,   \* the state of the LICM object: dom_tree, def_to_block, uses, the sorted loops
    run     \* a concrete execution of cfg0: position, environment, edges taken

vars == <<prog, builder, ssa, cfg, cfg0, pc, hist, err, sccp, dce, licm, run>>


\* the generator state of `for bb in self.cfg`: the stack, the visited set and
\* the block whose loop body ran last (its successors are pushed on resumption)
IterStart(c) == [q |-> <<c.entry>>, visited |-> {}, last |-> NoBlock]

\* the stack once the generator is resumed: successors of the last block are
\* read from the CFG as it is now, visited blocks are popped
IterResume(c, it) ==
    IterSkip(IF it.last = NoBlock THEN it.q ELSE IterExtend(it.q, c.blocks[it.last].succ, it.visited), it.visited)

IterDone(c, it) == IterResume(c, it) = <<>>

IterNextBlock(c, it) == LET q == IterResume(c, it) IN q[Len(q)]

IterAdvance(c, it) ==
    LET q == IterResume(c, it)
    IN  [q |-> SubSeq(q, 1, Len(q) - 1), visited |-> it.visited \cup {q[Len(q)]}, last |-> q[Len(q)]]

SccpNew ==
    [value_state |-> <<>>, executable_blocks |-> {}, feasible_edges |-> {},
     block_worklist |-> <<>>, var_worklist |-> <<>>, mode |-> "blocks", it |-> [q |-> <<>>, visited |-> {}, last |-> NoBlock]]

DceNew == [live_insts |-> {}, live_vars |-> {}, var_work |-> <<>>]

SsaNew == [idom_tree |-> NoTree, DF |-> <<>>, live_in |-> <<>>, next_id |-> 0, err |-> "none"]

LicmNew == [order |-> "asc", dom_tree |-> NoTree, def_to_block |-> <<>>, uses |-> <<>>, loops |-> <<>>]

Init ==
    /\ prog \in ProgramNames
    /\ builder = NewBuilder
    /\ ssa = SsaNew
    /\ cfg = Corpus[prog]
    /\ cfg0 = cfg
    /\ pc = "idle"
    /\ hist = <<>>
    /\ err = <<>>
    /\ sccp = SccpNew
    /\ dce = DceNew
    /\ licm = LicmNew
    /\ run = RunOff

CanStartPass == pc = "idle" /\ Len(hist) < MaxPasses

\* a raised exception ends the run
Raise(p, e) == /\ err' = <<p, e>>
               /\ pc' = "failed"

\* SCCP().run(cfg) up to the propagation loop
SccpStart ==
    /\ CanStartPass
    /\ sccp' = [SccpNew EXCEPT !.value_state = SccpInit(cfg).value_state,
                               !.executable_blocks = SccpInit(cfg).executable_blocks,
                               !.block_worklist = SccpInit(cfg).block_worklist]
    /\ cfg0' = cfg
    /\ pc' = "sccp_propagate"
    /\ UNCHANGED <<prog, builder, ssa, cfg, hist, err, dce, licm, run>>

SccpState == [value_state |-> sccp.value_state, executable_blocks |-> sccp.executable_blocks,
              feasible_edges |-> sccp.feasible_edges, block_worklist |-> sccp.block_worklist,
              var_worklist |-> sccp.var_worklist]

SccpSet(S, mode) == [sccp EXCEPT !.value_state = S.value_state, !.executable_blocks = S.executable_blocks,
                                 !.feasible_edges = S.feasible_edges, !.block_worklist = S.block_worklist,
                                 !.var_worklist = S.var_worklist, !.mode = mode]

\* one iteration of `while self.block_worklist`
SccpProcessBlock ==
    /\ pc = "sccp_propagate"
    /\ sccp.block_worklist # <<>>
    /\ sccp.mode = "blocks" \/ sccp.var_worklist = <<>>
    /\ LET S == SccpState
           bb == Head(S.block_worklist)
       IN  sccp' = SccpSet(_process_block([S EXCEPT !.block_worklist = Tail(@)], cfg, bb), "blocks")
    /\ UNCHANGED <<prog, builder, ssa, cfg, cfg0, pc, hist, err, dce, licm, run>>

\* one iteration of `while self.var_worklist`
SccpProcessVariable ==
    /\ pc = "sccp_propagate"
    /\ sccp.var_worklist # <<>>
    /\ sccp.mode = "vars" \/ sccp.block_worklist = <<>>
    /\ LET S == SccpState
           key == Head(S.var_worklist)
       IN  sccp' = SccpSet(_process_variable_users([S EXCEPT !.var_worklist = Tail(@)], cfg, key), "vars")
    /\ UNCHANGED <<prog, builder, ssa, cfg, cfg0, pc, hist, err, dce, licm, run>>

\* both worklists are empty: _rewrite_cfg(), then _fold_constants starts iterating
SccpRewrite ==
    /\ pc = "sccp_propagate"
    /\ sccp.block_worklist = <<>> /\ sccp.var_worklist = <<>>
    /\ LET R == _rewrite_cfg(cfg, sccp.executable_blocks)
       IN  IF R.err # "none"
           THEN Raise("sccp", R.err) /\ UNCHANGED <<cfg, sccp>>
           ELSE /\ cfg' = R.cfg
                /\ sccp' = [sccp EXCEPT !.it = IterStart(R.cfg)]
                /\ pc' = "sccp_fold"
                /\ err' = err
    /\ UNCHANGED <<prog, builder, ssa, cfg0, hist, dce, licm, run>>

\* one iteration of `for bb in self.cfg` in _fold_constants
SccpFold ==
    /\ pc = "sccp_fold"
    /\ ~IterDone(cfg, sccp.it)
    /\ LET R == FoldBlock(cfg, sccp.value_state, IterNextBlock(cfg, sccp.it))
       IN  IF R.err # "none"
           THEN Raise("sccp", R.err) /\ UNCHANGED <<cfg, sccp>>
           ELSE /\ cfg' = R.cfg
                /\ sccp' = [sccp EXCEPT !.it = IterAdvance(cfg, sccp.it)]
                /\ UNCHANGED <<pc, err>>
    /\ UNCHANGED <<prog, builder, ssa, cfg0, hist, dce, licm, run>>

\* the fold loop is exhausted: SCCP.run returns
SccpDone ==
    /\ pc = "sccp_fold"
    /\ IterDone(cfg, sccp.it)
    /\ pc' = "idle"
    /\ hist' = Append(hist, "sccp")
    /\ UNCHANGED <<prog, builder, ssa, cfg, cfg0, err, sccp, dce, licm, run>>

\* DCE().run(cfg) up to the marking loop: _build_metadata and _seed_roots
DceStart ==
    /\ CanStartPass
    /\ cfg0' = cfg
    /\ IF ~DceMetadataOk(cfg)
       THEN Raise("dce", "AssertionError") /\ UNCHANGED dce
       ELSE /\ dce' = _seed_roots(cfg)
            /\ pc' = "dce_mark"
            /\ err' = err
    /\ UNCHANGED <<prog, builder, ssa, cfg, hist, sccp, licm, run>>

\* one iteration of `while var_work` in _mark
DceMark ==
    /\ pc = "dce_mark"
    /\ dce.var_work # <<>>
    /\ LET r == MarkStep(dce, cfg)
       IN  /\ dce' = r.L
           /\ IF r.err # "none" THEN Raise("dce", r.err) ELSE UNCHANGED <<pc, err>>
    /\ UNCHANGED <<prog, builder, ssa, cfg, cfg0, hist, sccp, licm, run>>

\* the worklist is empty: _sweep, and DCE.run returns
DceSweep ==
    /\ pc = "dce_mark"
    /\ dce.var_work = <<>>
    /\ cfg' = _sweep(cfg, dce.live_insts)
    /\ pc' = "idle"
    /\ hist' = Append(hist, "dce")
    /\ UNCHANGED <<prog, builder, ssa, cfg0, err, sccp, dce, licm, run>>

\* LICM().run(cfg) up to the loop over the loops: compute_dominator_tree
\* (which prunes predecessor lists), _index_definitions, _find_loops and the sort
LicmStart ==
    /\ CanStartPass
    /\ cfg0' = cfg
    /\ \E o \in SetOrders :
        LET reachable_blocks == Reachable(cfg)
            pruned == prune_unreachable(cfg, reachable_blocks)
        IN  /\ cfg' = pruned
            /\ IF DominatorsKeyError(pruned, reachable_blocks)
               THEN Raise("licm", "KeyError") /\ UNCHANGED licm
               ELSE LET tree == _build_dominator_tree(_compute_dominators(pruned, reachable_blocks),
                                                      pruned.entry,
                                                      <<pruned.entry>> \o SetOrder(reachable_blocks \ {pruned.entry}, o))
                        ix == _index_definitions(pruned)
                        F == _find_loops(pruned, tree)
                    IN  /\ licm' = [order |-> o, dom_tree |-> tree, def_to_block |-> ix.def_to_block,
                                    uses |-> ix.uses, loops |-> SortLoops(F.loops, Len(F.loops))]
                        /\ IF F.err # "none" THEN Raise("licm", F.err)
                           ELSE pc' = "licm_hoist" /\ err' = err
    /\ UNCHANGED <<prog, builder, ssa, hist, sccp, dce, run>>

\* one iteration of `for loop in sorted(loops, ...)`: _hoist_loop
LicmHoistLoop ==
    /\ pc = "licm_hoist"
    /\ licm.loops # <<>>
    /\ LET r == _hoist_loop(cfg, licm.def_to_block, Head(licm.loops), licm.uses, licm.dom_tree)
       IN  /\ cfg' = r.cfg
           /\ licm' = [licm EXCEPT !.def_to_block = r.def_to_block, !.loops = Tail(@)]
           /\ IF r.err # "none" THEN Raise("licm", r.err) ELSE UNCHANGED <<pc, err>>
    /\ UNCHANGED <<prog, builder, ssa, cfg0, hist, sccp, dce, run>>

\* every loop is done: LICM.run returns
LicmDone ==
    /\ pc = "licm_hoist"
    /\ licm.loops = <<>>
    /\ pc' = "idle"
    /\ hist' = Append(hist, "licm")
    /\ UNCHANGED <<prog, builder, ssa, cfg, cfg0, err, sccp, dce, licm, run>>

\* A concrete execution of the function that the SCCP run just analysed (cfg0,
\* the CFG as it was handed to SCCP) starts at the entry block.
ExecStart ==
    /\ pc = "idle"
    /\ hist # <<>> /\ hist[Len(hist)] = "sccp"
    /\ run' = [RunOff EXCEPT !.status = "running", !.block = cfg0.entry, !.idx = 1, !.blocks = {cfg0.entry}]
    /\ pc' = "exec"
    /\ UNCHANGED <<prog, builder, ssa, cfg, cfg0, hist, err, sccp, dce, licm>>

\* the execution performs the instruction it stands at
ExecStep ==
    /\ pc = "exec"
    /\ run.status = "running"
    /\ LET insts == cfg0.blocks[run.block].instructions
           r == [run EXCEPT !.steps = @ + 1]
       IN  IF run.steps >= MaxExecSteps THEN run' = RunStop(run, "out_of_steps")
           ELSE IF run.idx > Len(insts) THEN run' = RunStop(run, "fell_off")
           ELSE LET inst == insts[run.idx]
                    next == [r EXCEPT !.idx = @ + 1]
                IN  IF \E v \in Range(Operands(inst)) : ~ValueDefined(run.env, v)
                    THEN run' = RunStop(r, "undefined")
                    ELSE CASE inst.op = "assign" ->
                                  LET vals == ConcreteRhs(run.env, inst.rhs, 0..MaxInput)
                                  IN  IF vals = {} THEN run' = RunStop(r, "fault")
                                      ELSE \E v \in vals : run' = [next EXCEPT !.env = (as_tuple(inst.lhs) :> v) @@ @]
                           [] inst.op \in {"getarg", "array_init"} ->
                                  \E v \in 0..MaxInput : run' = [next EXCEPT !.env = (as_tuple(inst.lhs) :> v) @@ @]
                           [] inst.op = "store" -> run' = next
                           [] inst.op = "cmp" ->
                                  run' = EnterBlock(cfg0, r, run.block,
                                                    IF ValueOf(run.env, inst.args[1]) = ValueOf(run.env, inst.args[2])
                                                    THEN inst.targets[1] ELSE inst.targets[2])
                           [] inst.op = "jmp" -> run' = EnterBlock(cfg0, r, run.block, inst.targets[1])
                           [] OTHER -> run' = RunStop(r, "returned")
    /\ UNCHANGED <<prog, builder, ssa, cfg, cfg0, pc, hist, err, sccp, dce, licm>>

Next ==
    \/ ExecStart
    \/ ExecStep
    \/ LicmStart
    \/ LicmHoistLoop
    \/ LicmDone
    \/ DceStart
    \/ DceMark
    \/ DceSweep
    \/ SccpStart
    \/ SccpProcessBlock
    \/ SccpProcessVariable
    \/ SccpRewrite
    \/ SccpFold
    \/ SccpDone

Spec == Init /\ [][Next]_vars

(***************************************************************************)
(* The front end of the driver (tests/base.py, parse_programm): the        *)
(* function main of a source program is lowered by CFGBuilder and put into *)
(* SSA form by SSABuilder before the passes run.                           *)
(***************************************************************************)
\* the names of the temporaries CFGBuilder made
TmpNames(B) == {TmpName(k) : k \in 0..(B.tmp_var_counter - 1)}

\* The args attribute of the CFG object handed to SSABuilder.build.  The CFG
\* class has no such field, so CFGBuilder leaves the attribute absent; a caller
\* can set it, to no arguments or to the arguments of the function.
CfgArgs(func) ==
    {[has_args |-> FALSE, args |-> <<>>], [has_args |-> TRUE, args |-> <<>>], [has_args |-> TRUE, args |-> func.args]}

InitBuild ==
    /\ prog \in SourceNames
    /\ builder = NewBuilder
    /\ ssa = SsaNew
    /\ cfg = CFG(NoBlock, NoBlock, <<>>)
    /\ cfg0 = cfg
    /\ pc = "source"
    /\ hist = <<>>
    /\ err = <<>>
    /\ sccp = SccpNew
    /\ dce = DceNew
    /\ licm = LicmNew
    /\ run = RunOff

CfgBuilt(B) ==
    /\ builder' = B
    /\ cfg' = CFG(0, 1, B.blocks)
    /\ cfg0' = cfg'
    /\ IF B.err # "none" THEN Raise("cfg", B.err) ELSE pc' = "built" /\ UNCHANGED err

\* CFGBuilder().build(ast)[0]
CfgBuild ==
    /\ pc = "source"
    /\ CfgBuilt(_build_function(Sources[prog]))
    /\ UNCHANGED <<prog, ssa, hist, sccp, dce, licm, run>>

\* SSABuilder.build(cfg) raises e: the pass stops where it is
SsaRaise(e) ==
    /\ ssa' = [ssa EXCEPT !.err = e]
    /\ Raise("ssa", e)

\* build: traverse and prune_unreachable of compute_dominator_tree
SsaPrune ==
    /\ pc = "built"
    /\ cfg0' = cfg
    /\ cfg' = prune_unreachable(cfg, Reachable(cfg))
    /\ ssa' = SsaNew
    /\ pc' = "ssa_dominators"
    /\ UNCHANGED <<prog, builder, hist, err, sccp, dce, licm, run>>

\* build: the DominatorTree of compute_dominator_tree; o is the iteration
\* order of its set of reachable blocks
SsaDominatorTree ==
    /\ pc = "ssa_dominators"
    /\ IF DominatorsKeyError(cfg, Reachable(cfg))
       THEN SsaRaise("KeyError")
       ELSE /\ \E o \in SetOrders :
                   ssa' = [ssa EXCEPT !.idom_tree =
                              _build_dominator_tree(_compute_dominators(cfg, Reachable(cfg)), cfg.entry,
                                                    <<cfg.entry>> \o SetOrder(Reachable(cfg) \ {cfg.entry}, o))]
            /\ pc' = "ssa_frontier"
            /\ UNCHANGED err
    /\ UNCHANGED <<prog, builder, cfg, cfg0, hist, sccp, dce, licm, run>>

SsaFrontierDone(D) ==
    IF D.err # "none" THEN SsaRaise(D.err)
    ELSE /\ ssa' = [ssa EXCEPT !.DF = D.DF]
         /\ pc' = "ssa_arguments"
         /\ UNCHANGED err

\* build: compute_dominance_frontier_graph
SsaFrontier ==
    /\ pc = "ssa_frontier"
    /\ SsaFrontierDone(compute_dominance_frontier_graph(cfg, ssa.idom_tree))
    /\ UNCHANGED <<prog, builder, cfg, cfg0, hist, sccp, dce, licm, run>>

SsaProgress(P, next) ==
    /\ cfg' = P.cfg
    /\ ssa' = [ssa EXCEPT !.next_id = P.next_id]
    /\ pc' = next
    /\ UNCHANGED err

\* build: _insert_get_argument_instructions over self.cfg.args
SsaArguments ==
    /\ pc = "ssa_arguments"
    /\ \E a \in CfgArgs(Sources[prog]) :
           IF ~a.has_args THEN SsaRaise("AttributeError") /\ UNCHANGED cfg
           ELSE SsaProgress(_insert_get_argument_instructions(
                                [cfg |-> cfg, next_id |-> builder.next_id], a.args, 1), "ssa_liveness")
    /\ UNCHANGED <<prog, builder, cfg0, hist, sccp, dce, licm, run>>

\* build: _compute_liveness
SsaLiveness ==
    /\ pc = "ssa_liveness"
    /\ ssa' = [ssa EXCEPT !.live_in = _compute_liveness(cfg).live_in]
    /\ pc' = "ssa_phis"
    /\ UNCHANGED <<prog, builder, cfg, cfg0, hist, err, sccp, dce, licm, run>>

\* build: _put_phis
SsaPutPhis ==
    /\ pc = "ssa_phis"
    /\ SsaProgress(_put_phis([cfg |-> cfg, next_id |-> ssa.next_id], ssa.DF, ssa.live_in,
                             traverse(ssa.idom_tree, ssa.idom_tree.entry)), "ssa_rename")
    /\ UNCHANGED <<prog, builder, cfg0, hist, sccp, dce, licm, run>>

SsaBuilt(R) ==
    /\ cfg' = R.cfg
    /\ IF R.err # "none" THEN SsaRaise(R.err) ELSE pc' = "idle" /\ UNCHANGED <<ssa, err>>

\* build: _rename_helper from the entry block
SsaRename ==
    /\ pc = "ssa_rename"
    /\ SsaBuilt(_rename_helper(NewRename(cfg, TmpNames(builder)), ssa.idom_tree, cfg.entry))
    /\ UNCHANGED <<prog, builder, cfg0, hist, sccp, dce, licm, run>>

NextBuild ==
    \/ CfgBuild
    \/ SsaPrune
    \/ SsaDominatorTree
    \/ SsaFrontier
    \/ SsaArguments
    \/ SsaLiveness
    \/ SsaPutPhis
    \/ SsaRename
    \/ Next

SpecBuild == InitBuild /\ [][NextBuild]_vars

(***************************************************************************)
(* BlockCleanup().run(cfg) on the CFG that the front end or a pass left    *)
(***************************************************************************)
BlockCleanupStart ==
    /\ pc = "idle"
    /\ cfg0' = cfg
    /\ pc' = "cleanup"
    /\ UNCHANGED <<prog, builder, ssa, cfg, hist, err, sccp, dce, licm, run>>

\* one round of `while changed` that finds a trivial jump block: the first
\* one that `for bb in cfg` yields is removed
BlockCleanupRemove ==
    /\ pc = "cleanup"
    /\ TrivialJumpBlocks(cfg) # <<>>
    /\ cfg' = _remove_block(cfg, TrivialJumpBlocks(cfg)[1])
    /\ UNCHANGED <<prog, builder, ssa, cfg0, pc, hist, err, sccp, dce, licm, run>>

\* a round that finds none: run returns
BlockCleanupDone ==
    /\ pc = "cleanup"
    /\ TrivialJumpBlocks(cfg) = <<>>
    /\ pc' = "cleaned"
    /\ UNCHANGED <<prog, builder, ssa, cfg, cfg0, hist, err, sccp, dce, licm, run>>

NextCleanup ==
    \/ BlockCleanupStart
    \/ BlockCleanupRemove
    \/ BlockCleanupDone
    \/ NextBuild

SpecCleanup == InitBuild /\ [][NextCleanup]_vars

(***************************************************************************)
(* The dominance functions on arbitrary small CFGs: compute_dominator_tree *)
(* and compute_dominance_frontier_graph take any CFG, so the front end's   *)
(* first three steps are also run on every graph of GraphBlocks blocks     *)
(* (BB0 the entry, BB1 the exit) in which a block has at most              *)
(* GraphBranches successors, self-loops and blocks unreachable from the    *)
(* entry included.  No edge enters the entry or leaves the exit.  The      *)
(* predecessor lists hold the predecessors in one of the orders SetOrders. *)
(***************************************************************************)
GraphBlocks == 4

GraphBranches == 2

GraphLabels == 0..(GraphBlocks - 1)

\* the CFG with the successor sets succs, its predecessor lists in order o
GraphOf(succs, o) ==
    CFG(0, 1,
        [b \in GraphLabels |->
            BasicBlock(<<>>, <<>>,
                       SetOrder({p \in GraphLabels : b \in succs[p]}, o),
                       SortedSeq(succs[b]))])

Graphs ==
    {GraphOf(succs, o) :
         succs \in {f \in [GraphLabels -> SUBSET (GraphLabels \ {0})] :
                        /\ f[1] = {}
                        /\ \A b \in GraphLabels : Cardinality(f[b]) <= GraphBranches},
         o \in SetOrders}

InitGraph ==
    /\ prog = "Graph"
    /\ builder = NewBuilder
    /\ ssa = SsaNew
    /\ cfg \in Graphs
    /\ cfg0 = cfg
    /\ pc = "built"
    /\ hist = <<>>
    /\ err = <<>>
    /\ sccp = SccpNew
    /\ dce = DceNew
    /\ licm = LicmNew
    /\ run = RunOff

NextGraph ==
    \/ SsaPrune
    \/ SsaDominatorTree
    \/ SsaFrontier

SpecGraph == InitGraph /\ [][NextGraph]_vars

\* an iteration of SCCP.run's propagation loop is due (sccp.py 89-97)
PropagationPending ==
    pc = "sccp_propagate" /\ (sccp.block_worklist # <<>> \/ sccp.var_worklist # <<>>)

PropagationStep == SccpProcessBlock \/ SccpProcessVariable

\* SCCP.run carries out the iteration that is due: weak fairness of
\* PropagationStep, WF_vars(PropagationStep), with ENABLED <<PropagationStep>>_vars
\* written as the state predicate PropagationPending that it equals (one of
\* the two guards holds whenever a worklist is non-empty, and the step pops
\* an element)
PropagationFair == []<>(~PropagationPending) \/ []<><<PropagationStep>>_vars

SpecSccp == InitBuild /\ [][NextBuild]_vars /\ PropagationFair

(***************************************************************************)
(* Properties                                                              *)
(***************************************************************************)
LastPass == IF hist = <<>> THEN "none" ELSE hist[Len(hist)]

\* pass p has just returned: cfg is its output and cfg0 was its input
Finished(p) == pc = "idle" /\ LastPass = p

PhiKeys(phi) == {phi.rhs[i][1] : i \in DOMAIN phi.rhs}

PhiKeysMatchPreds(c) ==
    \A b \in Reachable(c) : \A i \in DOMAIN c.blocks[b].phi_nodes :
        PhiKeys(c.blocks[b].phi_nodes[i]) = Range(c.blocks[b].preds)

\* C1: after SCCP.run, every phi of every block reachable from the entry has
\* exactly the labels of the block's current predecessors as the keys of its
\* incoming map (given that the CFG handed to SCCP had that property).
C1_PhiKeysMatchPredsAfterSccp ==
    (Finished("sccp") /\ PhiKeysMatchPreds(cfg0)) => PhiKeysMatchPreds(cfg)

\* the (name, version) keys defined in the blocks reachable from the entry
DefinedKeys(c) == {as_tuple(e.inst.lhs) : e \in {x \in Entries(c, Reachable(c)) : IsDef(x.inst)}}

\* every variable read by a reachable instruction or phi has its definition
OperandsDefined(c) ==
    \A e \in Entries(c, Reachable(c)) : UseKeys(e.inst) \subseteq DefinedKeys(c)

\* C2: after DCE.run, every SSA variable that is an operand of a remaining
\* reachable instruction or phi, the stored value and the address of a retained
\* Store included, still has its defining instruction.
C2_OperandsDefinedAfterDce ==
    (Finished("dce") /\ OperandsDefined(cfg0)) => OperandsDefined(cfg)

\* C3: after LICM.run, every Assign whose right-hand side is a Call or a Load
\* is still in the block it was in before the pass.
C3_LicmKeepsCallsAndLoadsInPlace ==
    Finished("licm") =>
        \A e \in Entries(cfg0, Reachable(cfg0)) :
            (e.inst.op = "assign" /\ e.inst.rhs.type \in {"call", "load"}) =>
                \E i \in DOMAIN cfg.blocks[e.block].instructions :
                    cfg.blocks[e.block].instructions[i].id = e.inst.id

\* C4: LICM.run raises no assertion failure on a CFG that comes from
\* CFGBuilder + SSABuilder, directly or through one SCCP run.
C4_LicmRaisesNoAssertion ==
    hist \in {<<>>, <<"sccp">>} => ~(pc = "failed" /\ err = <<"licm", "AssertionError">>)

\* C5: when the propagation of SCCP ends, a product with an operand whose
\* lattice value is CONST(0) has the lattice value CONST(0), whatever the other
\* operand is; and for the zero_mult program SCCP emits return(0).
C5_ZeroProductIsConstant ==
    Finished("sccp") =>
        /\ \A e \in Entries(cfg0, sccp.executable_blocks) :
               ( /\ e.inst.op = "assign"
                 /\ e.inst.rhs.type = "binary"
                 /\ e.inst.rhs.opr = "*"
                 /\ \E i \in 1..2 : _get_lattice_of_value(sccp.value_state, e.inst.rhs.args[i]) = LConst(0) )
               => sccp.value_state[as_tuple(e.inst.lhs)] = LConst(0)
        /\ (prog = "ZeroMult" /\ hist = <<"sccp">>) =>
               \A e \in Entries(cfg, Reachable(cfg)) : e.inst.op = "return" => e.inst.args = <<Const(0)>>

RECURSIVE Closure(_, _, _)
Closure(c, X, through) ==
    LET new == X \cup UNION {Range(c.blocks[b].succ) : b \in X \cap through}
    IN  IF new = X THEN X ELSE Closure(c, new, through)

\* the blocks reachable from block b in one or more steps
ReachFrom(c, b) == Closure(c, Range(c.blocks[b].succ), DOMAIN c.blocks)

\* the instruction or phi with this identity is in a reachable block of c
Retained(c, id) == \E e \in Entries(c, Reachable(c)) : e.inst.id = id

\* position of an entry within its block: a phi stands before every instruction
Pos(e) == IF e.idx = -1 THEN 0 ELSE e.idx

StoresThrough(c, B) ==
    {e \in Entries(c, Reachable(c)) : e.inst.op = "store" /\ e.inst.args[1].base_pointer = B}

\* entry I is reachable from the Store S along a path without another Store through B
ReachesWithoutStore(c, S, I, B) ==
    LET others == {x \in StoresThrough(c, B) : x.inst.id \notin {S.inst.id, I.inst.id}}
        clean == {b \in DOMAIN c.blocks : \A x \in others : x.block # b}
    IN  \/ /\ S.block = I.block
           /\ Pos(S) < Pos(I)
           /\ \A x \in others : x.block = S.block => ~(Pos(S) < Pos(x) /\ Pos(x) < Pos(I))
        \/ /\ S.inst.id # I.inst.id
           /\ \A x \in others : x.block = S.block => Pos(x) < Pos(S)
           /\ \A x \in others : x.block = I.block => Pos(x) > Pos(I)
           /\ I.block \in Closure(c, Range(c.blocks[S.block].succ), clean \ {S.block, I.block})

\* the base pointers of the values an instruction uses
UsedBases(inst) == {v.base_pointer : v \in {w \in Range(Operands(inst)) : IsVar(w) /\ w.base_pointer # NoBase}}

\* C7: for every instruction I that DCE retains and that uses a value with
\* base pointer B, every Store through B from which I is reachable along a path
\* without another Store through B is retained, and so is the definition of B.
C7_PointerChainIsSound ==
    Finished("dce") =>
        \A I \in Entries(cfg0, Reachable(cfg0)) :
            Retained(cfg, I.inst.id) =>
                \A B \in UsedBases(I.inst) :
                    /\ B \in DefinedKeys(cfg0) => B \in DefinedKeys(cfg)
                    /\ \A S \in StoresThrough(cfg0, B) :
                           ReachesWithoutStore(cfg0, S, I, B) => Retained(cfg, S.inst.id)

\* DCE retained a Load while a Store through the same base, placed in another
\* block, reaches it
C7_Witness ==
    /\ Finished("dce")
    /\ \E I \in Entries(cfg0, Reachable(cfg0)) :
           /\ I.inst.op = "assign" /\ I.inst.rhs.type = "load"
           /\ Retained(cfg, I.inst.id)
           /\ \E B \in UsedBases(I.inst) : \E S \in StoresThrough(cfg0, B) :
                  S.block # I.block /\ ReachesWithoutStore(cfg0, S, I, B) /\ Retained(cfg, S.inst.id)

RootInstruction(inst) ==
    \/ inst.op \in {"return", "cmp", "jmp"}
    \/ inst.op = "assign" /\ inst.rhs.type = "call"
    \/ /\ inst.op = "assign" /\ inst.rhs.type = "binary" /\ inst.rhs.opr \in {"/", "%"}
       /\ IsVar(inst.rhs.args[2]) \/ inst.rhs.args[2] = Const(0)

\* C9: DCE never removes a Return, a Cmp, an UncondJump, an Assign of a Call, or
\* an Assign of a `/` or `%` whose divisor is an SSA variable or the constant 0;
\* and the definitions of the operands of those instructions are retained too.
C9_RootsAreRetained ==
    Finished("dce") =>
        \A e \in Entries(cfg0, Reachable(cfg0)) :
            RootInstruction(e.inst) =>
                /\ Retained(cfg, e.inst.id)
                /\ \A k \in UseKeys(e.inst) : k \in DefinedKeys(cfg0) => k \in DefinedKeys(cfg)

\* DCE kept a division by a variable whose result no instruction uses
C9_Witness ==
    /\ Finished("dce")
    /\ \E e \in Entries(cfg0, Reachable(cfg0)) :
           /\ e.inst.op = "assign" /\ e.inst.rhs.type = "binary" /\ e.inst.rhs.opr = "/"
           /\ IsVar(e.inst.rhs.args[2])
           /\ \A u \in Entries(cfg0, Reachable(cfg0)) : as_tuple(e.inst.lhs) \notin UseKeys(u.inst)
           /\ Retained(cfg, e.inst.id)

\* a Load through base B, or a Call that receives a value with base B
ReadsThrough(inst, B) ==
    /\ inst.op = "assign"
    /\ inst.rhs.type \in {"load", "call"}
    /\ \E v \in Range(inst.rhs.args) : IsVar(v) /\ v.base_pointer = B

LocalArrays(c) == {as_tuple(e.inst.lhs) : e \in {x \in Entries(c, Reachable(c)) : x.inst.op = "array_init"}}

\* a retained reader through B can be reached from the Store S
ReaderReachable(S, B) ==
    \E I \in Entries(cfg0, Reachable(cfg0)) :
        /\ ReadsThrough(I.inst, B)
        /\ Retained(cfg, I.inst.id)
        /\ \/ I.block = S.block /\ Pos(S) < Pos(I)
           \/ I.block \in ReachFrom(cfg0, S.block)

\* C10: DCE removes a Store through the base pointer of a local array when no
\* retained Load or Call reading through that base is reachable from the Store;
\* it removes pointer arithmetic and an ArrayInit that no retained instruction
\* uses.
C10_DeadArrayWritesAreRemoved ==
    Finished("dce") =>
        /\ \A B \in LocalArrays(cfg0) : \A S \in StoresThrough(cfg0, B) :
               ~ReaderReachable(S, B) => ~Retained(cfg, S.inst.id)
        /\ \A e \in Entries(cfg0, Reachable(cfg0)) :
               ( /\ \/ e.inst.op = "array_init"
                    \/ e.inst.op = "assign" /\ e.inst.lhs.base_pointer # NoBase /\ e.inst.rhs.type = "binary"
                 /\ \A u \in Entries(cfg, Reachable(cfg)) : as_tuple(e.inst.lhs) \notin UseKeys(u.inst) )
               => ~Retained(cfg, e.inst.id)

\* the last instruction of block b, or NoInst for an empty block
LastInst(c, b) ==
    IF c.blocks[b].instructions = <<>> THEN [op |-> "none"]
    ELSE c.blocks[b].instructions[Len(c.blocks[b].instructions)]

\* the blocks of c that end in the Cmp of an `if`: _build_condition gives the
\* then arm the meta "then" and makes it the else_block of Cmp(cond, 0, .., ..)
IfBranches(c) ==
    {b \in Reachable(c) : /\ LastInst(c, b).op = "cmp"
                          /\ c.blocks[LastInst(c, b).targets[2]].meta = "then"}

\* the lattice value SCCP ended with for the condition of the `if` ending b
CondLattice(c, b) == _get_lattice_of_value(sccp.value_state, LastInst(c, b).args[1])

\* the `if`s of the analysed function whose condition SCCP proved constant
ConstantIfs == {b \in IfBranches(cfg0) \cap sccp.executable_blocks : CondLattice(cfg0, b).kind = "CONST"}

ThenArm(b) == LastInst(cfg0, b).targets[2]

\* the else arm or, without an else, the merge block
ElseArm(b) == LastInst(cfg0, b).targets[1]

Surviving(b) == IF CondLattice(cfg0, b).value # 0 THEN ThenArm(b) ELSE ElseArm(b)

Dropped(b) == IF CondLattice(cfg0, b).value # 0 THEN ElseArm(b) ELSE ThenArm(b)

\* _build_condition makes the merge block right after the then block
MergeOf(b) == ThenArm(b) + 1

\* the predecessors through which control can still enter block m
LiveEdgesInto(c, m) == {k \in Reachable(c) : m \in Range(c.blocks[k].succ)}

\* C11: for an `if (c)` whose condition SCCP proves constant, SCCP keeps the
\* source-level arm selected by the truth value of c.  The block ending in the
\* Cmp ends in an UncondJump to the then arm when c # 0 and to the else arm
\* (or, with no else, the merge block) when c = 0; the edge to the other arm is
\* gone from the successor and predecessor lists; the then arm is reachable
\* exactly when c # 0; and every phi left at the merge block has incoming
\* entries only for edges through which control still enters the merge block.
C11_ConstantIfKeepsSelectedArm ==
    Finished("sccp") =>
        \A b \in ConstantIfs :
            /\ LastInst(cfg, b).op = "jmp"
            /\ LastInst(cfg, b).targets = <<Surviving(b)>>
            /\ cfg.blocks[b].succ = <<Surviving(b)>>
            /\ b \notin Range(cfg.blocks[Dropped(b)].preds)
            /\ (ThenArm(b) \in Reachable(cfg)) <=> (CondLattice(cfg0, b).value # 0)
            /\ Surviving(b) \in Reachable(cfg)
            /\ \A i \in DOMAIN cfg.blocks[MergeOf(b)].phi_nodes :
                   PhiKeys(cfg.blocks[MergeOf(b)].phi_nodes[i]) \subseteq LiveEdgesInto(cfg, MergeOf(b))

\* SCCP has just folded an `if` with an else arm whose condition is a nonzero
\* constant and one whose condition is zero
C11_Witness ==
    /\ Finished("sccp")
    /\ \E b \in ConstantIfs : CondLattice(cfg0, b).value # 0 /\ cfg0.blocks[ElseArm(b)].meta = "else"
    /\ \E b \in ConstantIfs : CondLattice(cfg0, b).value = 0 /\ cfg0.blocks[ElseArm(b)].meta = "else"

\* the defining instructions (Assign, phi, ArrayInit, GetArgument) of the blocks
\* B whose left-hand side has a version
DefEntries(c, B) == {e \in Entries(c, B) : IsDef(e.inst) /\ e.inst.lhs.version # 0}

UniqueDefinitions(c) ==
    \A e1, e2 \in DefEntries(c, DOMAIN c.blocks) : as_tuple(e1.inst.lhs) = as_tuple(e2.inst.lhs) => e1 = e2

\* every definition of cfg is an instruction of cfg0 that defined the same
\* (name, version) there
VersionsKept ==
    \A e \in DefEntries(cfg, DOMAIN cfg.blocks) :
        \E e0 \in DefEntries(cfg0, DOMAIN cfg0.blocks) :
            e0.inst.id = e.inst.id /\ as_tuple(e0.inst.lhs) = as_tuple(e.inst.lhs)

\* C12: after SSABuilder.build, and after every SCCP, LICM or DCE run that
\* follows, every (name, version) pair has exactly one defining instruction
\* (Assign, phi, ArrayInit or GetArgument) in the CFG, and a pass neither adds
\* a definition nor changes the version an instruction defines.
C12_OneDefinitionPerVersion ==
    pc = "idle" => /\ UniqueDefinitions(cfg)
                   /\ hist # <<>> => VersionsKept

\* SSABuilder.build has just versioned a name that is defined by an Assign in
\* two blocks neither of which dominates the other, and by a phi
C12_Witness ==
    /\ pc = "idle"
    /\ hist = <<>>
    /\ \E e1, e2, e3 \in DefEntries(cfg, Reachable(cfg)) :
           /\ e1.inst.lhs.name = e2.inst.lhs.name
           /\ e1.inst.lhs.name = e3.inst.lhs.name
           /\ e1.inst.op = "assign"
           /\ e2.inst.op = "assign"
           /\ e3.inst.op = "phi"
           /\ e1.block \notin ssa.idom_tree.dominators[e2.block]
           /\ e2.block \notin ssa.idom_tree.dominators[e1.block]

\* the names of the variables an instruction reads
NameUses(inst) == {v.name : v \in {w \in Range(Operands(inst)) : IsVar(w)}}

\* block b reads name v before it defines it
UpwardExposed(c, b, v) ==
    \E i \in DOMAIN c.blocks[b].instructions :
        /\ v \in NameUses(c.blocks[b].instructions[i])
        /\ \A j \in 1..(i - 1) : ~DefinesName(c.blocks[b].instructions[j], v)

\* name v is live at the entry of block Y: some path from there reads v before
\* defining it
LiveAtEntry(c, Y, v) ==
    \E Z \in Closure(c, {Y}, {b \in DOMAIN c.blocks : ~HasDefOf(c, b, v)}) : UpwardExposed(c, Z, v)

\* the dominance frontier of block n
DomFrontier(c, tree, n) ==
    {y \in Reachable(c) : /\ \E p \in Range(c.blocks[y].preds) : n \in tree.dominators[p]
                          /\ ~(n \in tree.dominators[y] /\ n # y)}

\* the iterated dominance frontier of the blocks S
RECURSIVE IteratedFrontier(_, _, _, _)
IteratedFrontier(c, tree, S, X) ==
    LET new == UNION {DomFrontier(c, tree, n) : n \in S \cup X}
    IN  IF new = X THEN X ELSE IteratedFrontier(c, tree, S, new)

DefBlocks(c, v) == {b \in Reachable(c) : HasDefOf(c, b, v)}

\* the names for which block Y has a phi
PhiNames(c, Y) == {c.blocks[Y].phi_nodes[i].lhs.name : i \in DOMAIN c.blocks[Y].phi_nodes}

SsaJustBuilt == pc = "idle" /\ hist = <<>>

\* C13: after SSABuilder.build, a block Y has a phi for the name v only if v is
\* in the live_in set the builder computed for Y, Y is in the iterated
\* dominance frontier of the blocks that define v, and v is live at the entry
\* of Y (no phi for a variable that is dead at the join).
C13_PrunedPhiPlacement ==
    SsaJustBuilt =>
        \A Y \in Reachable(cfg) : \A v \in PhiNames(cfg, Y) :
            /\ v \in ssa.live_in[Y]
            /\ Y \in IteratedFrontier(cfg, ssa.idom_tree, DefBlocks(cfg, v), {})
            /\ LiveAtEntry(cfg, Y, v)

\* the definitions (phi included) of name v in block b before position i
DefsBefore(c, b, v, i) ==
    {e \in Entries(c, {b}) : IsDef(e.inst) /\ e.inst.lhs.name = v /\ Pos(e) < i}

LastOf(defs) == CHOOSE e \in defs : \A f \in defs : Pos(f) <= Pos(e)

BlocksWithoutDef(c, v) == {b \in DOMAIN c.blocks : DefsBefore(c, b, v, Len(c.blocks[b].instructions) + 1) = {}}

\* the (name, version) keys of the definitions of v that reach position i of
\* block B along some path from the entry; <<v, 0>> stands for a path without
\* a definition of v
ReachingEntry(c, B, v) ==
    {as_tuple(LastOf(DefsBefore(c, Z, v, Len(c.blocks[Z].instructions) + 1)).inst.lhs) :
         Z \in {b \in Reachable(c) \ BlocksWithoutDef(c, v) :
                    B \in Closure(c, Range(c.blocks[b].succ), BlocksWithoutDef(c, v))}}
    \cup (IF B \in Closure(c, {c.entry}, BlocksWithoutDef(c, v)) THEN {<<v, 0>>} ELSE {})

ReachingAt(c, B, i, v) ==
    IF DefsBefore(c, B, v, i) # {} THEN {as_tuple(LastOf(DefsBefore(c, B, v, i)).inst.lhs)}
    ELSE ReachingEntry(c, B, v)

ReachingEnd(c, P, v) == ReachingAt(c, P, Len(c.blocks[P].instructions) + 1, v)

\* the variable operands of the instructions (not the phis) of the reachable
\* blocks: [block, idx, val]
NonPhiUses(c) ==
    UNION {{[block |-> e.block, idx |-> e.idx, val |-> w] : w \in {x \in Range(Operands(e.inst)) : IsVar(x)}}
           : e \in {x \in Entries(c, Reachable(c)) : x.inst.op # "phi"}}

\* the definition of the value read by u is in the same block before u or in a
\* strict dominator of the block
DefinitionDominates(c, tree, u) ==
    \E d \in DefEntries(c, Reachable(c)) :
        /\ as_tuple(d.inst.lhs) = as_tuple(u.val)
        /\ \/ d.block = u.block /\ Pos(d) < u.idx
           \/ d.block # u.block /\ d.block \in tree.dominators[u.block]

OneEntryPerPredecessor(c, Y, phi) ==
    /\ PhiKeys(phi) = Range(c.blocks[Y].preds)
    /\ Len(phi.rhs) = Cardinality(PhiKeys(phi))

\* C14: after SSABuilder.build, every use (v, n) in an instruction that is not
\* a phi has its definition earlier in the same block or in a strict dominator
\* of the block, and (v, n) is the most recent definition of v on every path
\* from the entry to the use; every phi has one incoming entry per predecessor,
\* and the entry for predecessor P names the version of v current at the end
\* of P.
C14_ConsistentRenaming ==
    SsaJustBuilt =>
        /\ \A u \in NonPhiUses(cfg) :
               /\ DefinitionDominates(cfg, ssa.idom_tree, u)
               /\ ReachingAt(cfg, u.block, u.idx, u.val.name) = {as_tuple(u.val)}
        /\ \A Y \in Reachable(cfg) : \A i \in DOMAIN cfg.blocks[Y].phi_nodes :
               /\ OneEntryPerPredecessor(cfg, Y, cfg.blocks[Y].phi_nodes[i])
               /\ \A k \in DOMAIN cfg.blocks[Y].phi_nodes[i].rhs :
                      ReachingEnd(cfg, cfg.blocks[Y].phi_nodes[i].rhs[k][1], cfg.blocks[Y].phi_nodes[i].lhs.name)
                          = {as_tuple(cfg.blocks[Y].phi_nodes[i].rhs[k][2])}

\* the predecessor and successor lists of the blocks reachable from the entry
\* agree with each other
PredSuccConsistent(c) ==
    \A B \in Reachable(c) :
        /\ \A p \in Range(c.blocks[B].preds) :
               p \in DOMAIN c.blocks /\ B \in Range(c.blocks[p].succ)
        /\ \A s \in Range(c.blocks[B].succ) :
               s \in DOMAIN c.blocks /\ B \in Range(c.blocks[s].preds)

\* the front end and the passes are between two steps: the CFG is built, the
\* unreachable predecessors are pruned, the dominator tree is computed, or
\* SSABuilder.build or a pass has returned
BetweenPasses == pc \in {"built", "ssa_dominators", "ssa_frontier", "idle"}

\* C15: after CFG construction and after any sequence of SSABuilder.build,
\* dominator-tree computation (with its pruning of predecessors), SCCP, LICM
\* and DCE, for every block B reachable from the entry, every p in preds(B)
\* has B in succ(p) and every s in succ(B) has B in preds(s).
C15_PredSuccConsistent == BetweenPasses => PredSuccConsistent(cfg)

\* what a CFG is to a reader: the blocks reachable from the entry with their
\* predecessor and successor lists, phis (incoming maps) and instructions
CfgView(c) ==
    [b \in Reachable(c) |-> [phi_nodes |-> c.blocks[b].phi_nodes,
                             instructions |-> c.blocks[b].instructions,
                             preds |-> c.blocks[b].preds,
                             succ |-> c.blocks[b].succ]]

\* pass p has just returned for the second time in a row; cfg0 is the CFG its
\* first run produced
RanTwice(p) == Finished(p) /\ Len(hist) >= 2 /\ hist[Len(hist) - 1] = p

\* pass p raised when run on the CFG its own previous run produced
RaisedOnOwnOutput(p) ==
    pc = "failed" /\ err[1] = p /\ hist # <<>> /\ hist[Len(hist)] = p

\* C16: SCCP is idempotent: a fresh SCCP run on the CFG that a first SCCP run
\* produced completes and leaves the CFG identical (same reachable blocks,
\* predecessor and successor lists, phi incoming maps and instructions).
C16_SccpIdempotent ==
    /\ ~RaisedOnOwnOutput("sccp")
    /\ RanTwice("sccp") => CfgView(cfg) = CfgView(cfg0)

\* C17: DCE is idempotent: a fresh DCE run on the CFG that a first DCE run
\* produced completes without raising (every variable on its worklist still
\* has a definition) and removes nothing further.
C17_DceIdempotent ==
    /\ ~RaisedOnOwnOutput("dce")
    /\ RanTwice("dce") => CfgView(cfg) = CfgView(cfg0)

\* DCE ran twice in a row on a program from which the first run removed
\* something, and the second run had variables to mark
C17_Witness ==
    /\ pc = "idle" /\ hist = <<"dce", "dce">>
    /\ CfgView(cfg) # CfgView(Corpus[prog])
    /\ dce.live_vars # {}

\* the back edges of c: <<latch, header>> with the header dominating the latch
BackEdges(c, tree) ==
    {e \in {<<t, h>> : t \in Reachable(c), h \in Reachable(c)} :
         e[2] \in Range(c.blocks[e[1]].succ) /\ _dominates(tree, e[2], e[1])}

\* the Assigns that are in another block of c than in c0: [id, from, to]
Hoisted(c0, c) ==
    {[id |-> e.inst.id, from |-> e0.block, to |-> e.block] :
         <<e0, e>> \in {x \in Entries(c0, Reachable(c0)) \X Entries(c, Reachable(c)) :
                            /\ x[2].inst.op = "assign" /\ x[1].inst.op = "assign"
                            /\ x[1].inst.id = x[2].inst.id
                            /\ x[1].block # x[2].block}}

\* h went from a block of some loop of c0 that dominates the loop's latch to
\* the preheader of that loop
HoistedFromDominatingBlock(c0, tree, h) ==
    \E e \in BackEdges(c0, tree) :
        /\ h.from \in _collect_loop_blocks(c0, e[2], e[1])
        /\ h.to \notin _collect_loop_blocks(c0, e[2], e[1])
        /\ h.to \in Range(c0.blocks[e[2]].preds)
        /\ h.from = e[1] \/ _dominates(tree, h.from, e[1])

\* the inputs of one execution: a value for each parameter index and the
\* value that memory (a Load, a Call, an array address) yields
ExecInputs(c) ==
    [args : [{e.inst.index : e \in {x \in Entries(c, Reachable(c)) : x.inst.op = "getarg"}} -> 0..MaxInput],
     mem : 0..MaxInput]

\* one instruction of the execution r of c on the inputs in; r.insts collects
\* the ids of the instructions performed
StepOn(c, r, in) ==
    LET insts == c.blocks[r.block].instructions
        inst == insts[r.idx]
        done == [r EXCEPT !.steps = @ + 1, !.insts = @ \cup {inst.id}]
        next == [done EXCEPT !.idx = @ + 1]
    IN  IF r.idx > Len(insts) THEN RunStop(r, "fell_off")
        ELSE IF \E v \in Range(Operands(inst)) : ~ValueDefined(r.env, v) THEN RunStop(done, "undefined")
        ELSE CASE inst.op = "assign" ->
                      LET vals == ConcreteRhs(r.env, inst.rhs, {in.mem})
                      IN  IF vals = {} THEN RunStop(done, "fault")
                          ELSE [next EXCEPT !.env = (as_tuple(inst.lhs) :> (CHOOSE v \in vals : TRUE)) @@ @]
               [] inst.op = "getarg" -> [next EXCEPT !.env = (as_tuple(inst.lhs) :> in.args[inst.index]) @@ @]
               [] inst.op = "array_init" -> [next EXCEPT !.env = (as_tuple(inst.lhs) :> in.mem) @@ @]
               [] inst.op = "store" -> next
               [] inst.op = "cmp" ->
                      EnterBlock(c, done, r.block,
                                 IF ValueOf(r.env, inst.args[1]) = ValueOf(r.env, inst.args[2])
                                 THEN inst.targets[1] ELSE inst.targets[2])
               [] inst.op = "jmp" -> EnterBlock(c, done, r.block, inst.targets[1])
               [] OTHER -> RunStop(done, "returned")

RECURSIVE RunOn(_, _, _, _)
RunOn(c, r, in, n) ==
    IF r.status # "running" THEN r
    ELSE IF n = 0 THEN RunStop(r, "out_of_steps")
    ELSE RunOn(c, StepOn(c, r, in), in, n - 1)

\* the execution of c from its entry on the inputs in, for at most MaxExecSteps
\* instructions
Execution(c, in) ==
    RunOn(c, [status |-> "running", block |-> c.entry, idx |-> 1, env |-> <<>>, steps |-> 0,
              edges |-> {}, blocks |-> {c.entry}, insts |-> {}], in, MaxExecSteps)

\* C18: LICM introduces no new fault or computation: an Assign in block B of
\* loop L is hoisted only if B dominates the latch of L, and on every execution
\* a hoisted instruction is performed in the preheader only if the program
\* before LICM performs it too on the same inputs, loops whose body leaves
\* through `break` or `return` before reaching B included.
C18_LicmNoNewComputation ==
    Finished("licm") =>
        /\ \A h \in Hoisted(cfg0, cfg) : HoistedFromDominatingBlock(cfg0, licm.dom_tree, h)
        /\ \A in \in ExecInputs(cfg0) :
               Execution(cfg0, in).status \in {"returned", "fault"} =>
                   \A h \in Hoisted(cfg0, cfg) :
                       h.id \in Execution(cfg, in).insts => h.id \in Execution(cfg0, in).insts

\* the entry block of c starts with one GetArgument per parameter of func, in
\* parameter order, each defining version 1 of the parameter, and holds no
\* other GetArgument
ArgumentsLowered(c, func) ==
    LET insts == c.blocks[c.entry].instructions
        n == Len(func.args)
    IN  /\ Len(insts) >= n
        /\ \A i \in 1..n : /\ insts[i].op = "getarg"
                           /\ insts[i].index = i - 1
                           /\ insts[i].lhs.name = func.args[i].name
                           /\ insts[i].lhs.version = 1
        /\ \A i \in (n + 1)..Len(insts) : insts[i].op # "getarg"

\* SSABuilder.build raised at `self.cfg.args`
SsaRaisedOnArgs == pc = "failed" /\ err = <<"ssa", "AttributeError">>

\* C19: once CFGBuilder and SSABuilder.build have run on a function with n
\* parameters, the entry block contains exactly one GetArgument per parameter,
\* with indices 0..n-1 in parameter order, before every other instruction of
\* the entry block, each defining version 1 of the parameter name.
C19_OneGetArgumentPerParameter ==
    SsaJustBuilt \/ SsaRaisedOnArgs => ArgumentsLowered(cfg, Sources[prog])

\* the blocks of a lowered loop l, by the order in which _build_for_loop and
\* _build_unconditional_loop make them
LoopCheck(l) == l.first
LoopBody(l) == IF l.kind = "for" THEN l.first + 2 ELSE l.first + 1
LoopLatch(l) == IF l.kind = "for" THEN l.first + 3 ELSE l.first + 2
LoopTail(l) == IF l.kind = "for" THEN l.first + 4 ELSE l.first + 3
LoopExit(l) == IF l.kind = "for" THEN l.first + 5 ELSE l.first + 4

\* b is the body block of l or a block made while the body of l was lowered
InsideBody(l, b) == b = LoopBody(l) \/ (b > LoopExit(l) /\ b <= l.last)

\* the jump j (a lowered break or continue) is an edge and an UncondJump from
\* the block that was current to the block `target`
JumpsTo(c, j, target) ==
    /\ j.target = target
    /\ target \in Range(c.blocks[j.from].succ)
    /\ j.from \in Range(c.blocks[target].preds)
    /\ \E i \in DOMAIN c.blocks[j.from].instructions :
           /\ c.blocks[j.from].instructions[i].op = "jmp"
           /\ c.blocks[j.from].instructions[i].targets = <<target>>

\* C20: for every ForLoop and UnconditionalLoop lowered by CFGBuilder, nested
\* loops included, `break` adds an edge and an UncondJump from the current
\* block to the tail block of the innermost enclosing loop and `continue` to
\* the update block of that loop; every predecessor of a loop's tail block is
\* the loop's latch or a block inside its body; the predecessors of the loop
\* exit block are the tail and, for a counted loop, the condition-check block;
\* and the break and continue target stacks are, once the loop is built, what
\* they were before it.
C20_BreakContinueTargets ==
    pc = "built" =>
        /\ \A k \in DOMAIN builder.jumps :
               /\ builder.jumps[k].enclosing # <<>>
               /\ \E l \in Range(builder.loops) :
                      /\ l.first = builder.jumps[k].enclosing[Len(builder.jumps[k].enclosing)]
                      /\ JumpsTo(cfg, builder.jumps[k],
                                 IF builder.jumps[k].kind = "break" THEN LoopTail(l) ELSE LoopLatch(l))
        /\ \A l \in Range(builder.loops) :
               /\ \A p \in Range(cfg.blocks[LoopTail(l)].preds) : p = LoopLatch(l) \/ InsideBody(l, p)
               /\ LoopTail(l) \in Range(cfg.blocks[LoopExit(l)].preds)
               /\ Range(cfg.blocks[LoopExit(l)].preds)
                      \subseteq {LoopTail(l)} \cup (IF l.kind = "for" THEN {LoopCheck(l)} ELSE {})
               /\ l.break_after = l.break_before
               /\ l.continue_after = l.continue_before

\* a counted loop with an unconditional loop in its body is lowered, with a
\* break and a continue in the inner loop and a break in the outer one
C20_Witness ==
    /\ pc = "built"
    /\ \E l \in Range(builder.loops) : l.kind = "uncond" /\ l.break_before # <<>>
    /\ \E j \in Range(builder.jumps) : j.kind = "break" /\ Len(j.enclosing) = 2
    /\ \E j \in Range(builder.jumps) : j.kind = "continue" /\ Len(j.enclosing) = 2
    /\ \E j \in Range(builder.jumps) : j.kind = "break" /\ Len(j.enclosing) = 1

\* the terminator of block b of c agrees with its successor list: a Cmp for two
\* or more successors, an UncondJump to the successor or a Return before the
\* exit block for one, and no instruction after a Cmp
TerminatorWellFormed(c, b) ==
    LET insts == c.blocks[b].instructions
        succ == c.blocks[b].succ
    IN  /\ Len(succ) >= 2 => insts # <<>> /\ insts[Len(insts)].op = "cmp"
        /\ Len(succ) = 1 =>
               /\ insts # <<>>
               /\ \/ insts[Len(insts)].op = "jmp" /\ insts[Len(insts)].targets = succ
                  \/ insts[Len(insts)].op = "return" /\ succ = <<c.exit>>
        /\ \A i \in DOMAIN insts : insts[i].op = "cmp" => i = Len(insts)

\* C21: in every CFG that CFGBuilder produces, and after every later pass, each
\* block reachable from the entry with two or more successors ends with a Cmp,
\* each block with exactly one successor ends with an UncondJump to that
\* successor or with a Return whose only successor is the exit block, and no
\* block has an instruction after a Cmp; the last block of a function body that
\* falls off the end without a `return` included.
C21_TerminatorsWellFormed ==
    BetweenPasses => \A b \in Reachable(cfg) : TerminatorWellFormed(cfg, b)

\* the DominatorTree of compute_dominator_tree when its set of reachable blocks
\* is iterated in order o
TreeInOrder(c, o) ==
    _build_dominator_tree(_compute_dominators(c, Reachable(c)), c.entry,
                          <<c.entry>> \o SetOrder(Reachable(c) \ {c.entry}, o))

\* _put_phis and _rename_helper of SSABuilder.build with the dominator tree
\* `tree`, on the CFG c that holds the GetArguments: the CFG in SSA form
RenamedWith(c, B, next_id, tree) ==
    _rename_helper(
        NewRename(_put_phis([cfg |-> c, next_id |-> next_id],
                            compute_dominance_frontier_graph(c, tree).DF,
                            _compute_liveness(c).live_in,
                            traverse(tree, tree.entry)).cfg,
                  TmpNames(B)),
        tree, c.entry).cfg

\* C22: SSABuilder.build yields the same result (the same version for every
\* definition, the same phi order and instruction order) whatever the order in
\* which the set of reachable blocks of the dominator computation, which fixes
\* the order of the children in the dominator tree, is iterated.
C22_BuildIsOrderIndependent ==
    pc = "ssa_liveness" =>
        \A o \in SetOrders :
            CfgView(RenamedWith(cfg, builder, ssa.next_id, TreeInOrder(cfg, o)))
                = CfgView(RenamedWith(cfg, builder, ssa.next_id, ssa.idom_tree))

\* the blocks of the CFG handed to the SCCP run that the run did not find
\* executable
NonExecutable == Reachable(cfg0) \ sccp.executable_blocks

LatticeLeq(a, b) == a.kind = "UNDEF" \/ b.kind = "NAC" \/ a = b

\* the blocks appended to the block worklist by a step of the propagation loop
\* (an iteration of `while self.block_worklist` pops the head first)
NewlyQueued ==
    SubSeq(sccp'.block_worklist,
           IF sccp'.mode = "blocks" THEN Len(sccp.block_worklist) ELSE Len(sccp.block_worklist) + 1,
           Len(sccp'.block_worklist))

\* one step of the propagation loop moves every lattice value upward or not at
\* all, keeps executable blocks and feasible edges, and queues only blocks
\* that were not executable before, each once
PropagationAscends ==
    pc = "sccp_propagate" /\ pc' = "sccp_propagate" =>
        /\ \A k \in DOMAIN sccp.value_state : LatticeLeq(sccp.value_state[k], sccp'.value_state[k])
        /\ sccp.executable_blocks \subseteq sccp'.executable_blocks
        /\ sccp.feasible_edges \subseteq sccp'.feasible_edges
        /\ \A i \in DOMAIN NewlyQueued :
               /\ NewlyQueued[i] \notin sccp.executable_blocks
               /\ NewlyQueued[i] \in sccp'.executable_blocks
               /\ \A j \in DOMAIN NewlyQueued : NewlyQueued[j] = NewlyQueued[i] => j = i

WorklistsEmpty == sccp.block_worklist = <<>> /\ sccp.var_worklist = <<>>

\* C24: the SCCP propagation loop terminates, also on CFGs with loops: each
\* lattice value only moves upward (UNDEF, CONST(k), NAC; never downward and
\* never from CONST(k) to another constant), each block enters the block
\* worklist at most once, a feasible edge stays feasible, and both worklists
\* eventually become empty.
C24_PropagationTerminates ==
    /\ [][PropagationAscends]_vars
    /\ (pc = "sccp_propagate") ~> (pc = "sccp_propagate" /\ WorklistsEmpty)

\* the propagation reached its fixpoint on a CFG with a loop: a back edge is
\* feasible and a phi of the loop went through a constant to NAC
C24_Witness ==
    /\ pc = "sccp_propagate" /\ WorklistsEmpty
    /\ \E e \in sccp.feasible_edges \cap BackEdges(cfg, TreeInOrder(cfg, "asc")) :
           /\ \E i \in DOMAIN cfg.blocks[e[2]].phi_nodes :
                  sccp.value_state[as_tuple(cfg.blocks[e[2]].phi_nodes[i].lhs)].kind = "NAC"

\* the Assigns in the blocks B of c that divide by an operand whose lattice
\* value in vs is CONST(0)
DivisionsByZero(c, B, vs) ==
    {e \in Entries(c, B) :
         /\ e.inst.op = "assign" /\ e.inst.rhs.type = "binary" /\ e.inst.rhs.opr \in {"/", "%"}
         /\ _get_lattice_of_value(vs, e.inst.rhs.args[2]) = LConst(0)}

\* c still holds the division e at its place, with operands that are those of
\* e or the literals of their constant lattice values
KeptAsDivision(c, e, vs) ==
    /\ e.idx \in DOMAIN c.blocks[e.block].instructions
    /\ LET f == c.blocks[e.block].instructions[e.idx]
       IN  /\ f.id = e.inst.id /\ f.op = "assign" /\ f.lhs = e.inst.lhs
           /\ f.rhs.type = "binary" /\ f.rhs.opr = e.inst.rhs.opr
           /\ f.rhs.args[2] = Const(0)
           /\ \/ f.rhs.args[1] = e.inst.rhs.args[1]
              \/ /\ _get_lattice_of_value(vs, e.inst.rhs.args[1]).kind = "CONST"
                 /\ f.rhs.args[1] = Const(_get_lattice_of_value(vs, e.inst.rhs.args[1]).value)

\* DCE ran on the output of an SCCP run
DceAfterSccp == Finished("dce") /\ Len(hist) >= 2 /\ hist[Len(hist) - 1] = "sccp"

\* C25: division by zero during SCCP is not an error: for a Binary `/` or `%`
\* (in a block SCCP finds executable) whose divisor has the lattice value
\* CONST(0), SCCP raises nothing, gives the result NAC, leaves the instruction
\* a division (only its operands may become literals), and a DCE run that
\* follows keeps the instruction although its result is unused.
C25_DivisionByZeroKept ==
    /\ pc = "failed" /\ err[1] = "sccp" =>
           DivisionsByZero(cfg0, sccp.executable_blocks, sccp.value_state) = {}
    /\ Finished("sccp") =>
           \A e \in DivisionsByZero(cfg0, sccp.executable_blocks, sccp.value_state) :
               /\ sccp.value_state[as_tuple(e.inst.lhs)] = LNac
               /\ KeptAsDivision(cfg, e, sccp.value_state)
    /\ DceAfterSccp =>
           \A e \in DivisionsByZero(cfg0, Reachable(cfg0), sccp.value_state) :
               e.inst \in Range(cfg.blocks[e.block].instructions)

\* SCCP met a division by a variable that it found to be 0, and the DCE run
\* after it dropped another instruction but kept the unused division
C25_Witness ==
    /\ DceAfterSccp
    /\ \E e \in DivisionsByZero(cfg0, Reachable(cfg0), sccp.value_state) :
           /\ as_tuple(e.inst.lhs) \notin UNION {UseKeys(u.inst) : u \in Entries(cfg0, Reachable(cfg0))}
           /\ Len(cfg.blocks[e.block].instructions) < Len(cfg0.blocks[e.block].instructions)

\* the loops of c0 (their blocks) that h was hoisted out of
LoopsHoistedFrom(c0, tree, h) ==
    {_collect_loop_blocks(c0, e[2], e[1]) :
         e \in {x \in BackEdges(c0, tree) :
                    /\ h.from \in _collect_loop_blocks(c0, x[2], x[1])
                    /\ h.to \notin _collect_loop_blocks(c0, x[2], x[1])
                    /\ h.to \in Range(c0.blocks[x[2]].preds)}}

\* the definitions of the variable key in c
DefinitionsOf(c, key) == {e \in DefEntries(c, Reachable(c)) : as_tuple(e.inst.lhs) = key}

\* the place in c of the instruction that h stands for
HoistedEntry(c, h) == CHOOSE e \in Entries(c, {h.to}) : e.inst.id = h.id

\* the operand v of the hoisted h is a constant, a variable defined outside
\* the loop, or the result of another instruction hoisted in the same run
OperandIsInvariant(c0, c, tree, h, v) ==
    \/ v.kind = "const"
    \/ /\ IsVar(v)
       /\ \A L \in LoopsHoistedFrom(c0, tree, h) :
              \/ \E d \in DefinitionsOf(c0, as_tuple(v)) : d.block \notin L
              \/ \E g \in Hoisted(c0, c) : \E d \in DefinitionsOf(c, as_tuple(v)) : d.inst.id = g.id

\* in c the hoisted h comes after the definition of its operand v
FollowsDefinition(c, tree, h, v) ==
    IsVar(v) =>
        /\ DefinitionsOf(c, as_tuple(v)) # {}
        /\ \A d \in DefinitionsOf(c, as_tuple(v)) :
               IF d.block = h.to THEN d.idx < HoistedEntry(c, h).idx
               ELSE _dominates(tree, d.block, h.to)

\* the hoisted instructions of block b of c stand in one row right before the
\* last instruction of b, a terminator
HoistedBeforeTerminator(c0, c, b) ==
    LET insts == c.blocks[b].instructions
        at == {i \in DOMAIN insts : \E h \in Hoisted(c0, c) : h.to = b /\ h.id = insts[i].id}
    IN  at # {} =>
            /\ insts[Len(insts)].op \in {"jmp", "cmp", "return"}
            /\ \A i \in DOMAIN insts : i \in at <=> (Len(insts) - Cardinality(at) <= i /\ i < Len(insts))

\* C26: LICM hoists only invariants and keeps definitions ahead of uses: every
\* operand of a hoisted Assign is a constant, a variable defined outside the
\* loop or the result of an instruction hoisted in the same run; the hoisted
\* instructions stand in the preheader right before its terminator, each one
\* after the definitions of all its operands.
C26_HoistedOperandsInvariant ==
    Finished("licm") =>
        /\ \A h \in Hoisted(cfg0, cfg) :
               \A v \in Range(Operands(HoistedEntry(cfg, h).inst)) :
                   /\ OperandIsInvariant(cfg0, cfg, licm.dom_tree, h, v)
                   /\ FollowsDefinition(cfg, licm.dom_tree, h, v)
        /\ \A b \in Reachable(cfg) : HoistedBeforeTerminator(cfg0, cfg, b)

\* the operands that the fold phase is to replace: those of an Assign
\* right-hand side (Call arguments included), a Cmp, a Return, the stored value
\* of a Store and the incoming values of a phi
FoldedOperands(inst) ==
    CASE inst.op = "store" -> <<inst.args[2]>>
      [] inst.op \in {"assign", "phi", "cmp", "return"} -> Operands(inst)
      [] OTHER -> <<>>

\* v is an SSA variable that SCCP found to be constant
HasConstLattice(vs, v) ==
    IsVar(v) /\ v.version # 0 /\ as_tuple(v) \in DOMAIN vs /\ vs[as_tuple(v)].kind = "CONST"

\* C27: after SCCP.run no operand of an Assign right-hand side, Call argument
\* list, Cmp, Return, Store (stored value) or phi incoming entry in a reachable
\* block is an SSA variable whose lattice value is CONST.
C27_ConstOperandsFolded ==
    Finished("sccp") =>
        \A e \in Entries(cfg, Reachable(cfg)) :
            \A v \in Range(FoldedOperands(e.inst)) : ~HasConstLattice(sccp.value_state, v)

\* the blocks that paths from the blocks S reach without entering block d
RECURSIVE PathsAvoiding(_, _, _)
PathsAvoiding(c, S, d) ==
    LET T == S \cup {s \in UNION {Range(c.blocks[b].succ) : b \in S} : s # d}
    IN  IF T = S THEN S ELSE PathsAvoiding(c, T, d)

\* the reference definition: the blocks that every path from the entry to b contains
RefDominators(c, b) ==
    {d \in Reachable(c) : d = b \/ b \notin PathsAvoiding(c, {c.entry} \ {d}, d)}

\* compute_dominator_tree has returned
TreeComputed == pc \in {"ssa_frontier", "ssa_arguments"} \/ (pc = "failed" /\ ssa.idom_tree # NoTree)

\* compute_dominator_tree raised
TreeRaised == pc = "failed" /\ ssa.idom_tree = NoTree

\* C28: for every CFG and every block B reachable from the entry the computed
\* dominator set is the set of the blocks that every path from the entry to B
\* contains, idom(B) is the strict dominator of B that every other strict
\* dominator of B dominates, and the entry has no immediate dominator, also
\* when predecessor lists still hold blocks unreachable from the entry.
C28_DominatorsAreReference ==
    /\ ~TreeRaised
    /\ TreeComputed =>
           /\ ssa.idom_tree.idom[cfg.entry] = NoBlock
           /\ \A b \in Reachable(cfg) :
                  /\ ssa.idom_tree.dominators[b] = RefDominators(cfg, b)
                  /\ b # cfg.entry =>
                         /\ ssa.idom_tree.idom[b] \in RefDominators(cfg, b) \ {b}
                         /\ \A d \in RefDominators(cfg, b) \ {b} :
                                d \in RefDominators(cfg, ssa.idom_tree.idom[b])

\* the reference definition: the blocks y such that x dominates a predecessor
\* of y and does not strictly dominate y
RefFrontier(c, x) ==
    {y \in Reachable(c) :
         /\ \E p \in Reachable(c) : y \in Range(c.blocks[p].succ) /\ x \in RefDominators(c, p)
         /\ ~(x # y /\ x \in RefDominators(c, y))}

\* compute_dominance_frontier_graph raised
FrontierRaised == pc = "failed" /\ ssa.idom_tree # NoTree

\* C29: for every CFG and every reachable block X the computed dominance
\* frontier is the set of blocks Y such that X dominates some predecessor of Y
\* and X does not strictly dominate Y, Y = X included for a loop header reached
\* by a back edge and for a block with an edge to itself.
C29_FrontierIsReference ==
    /\ ~FrontierRaised
    /\ pc = "ssa_arguments" => \A x \in Reachable(cfg) : ssa.DF[x] = RefFrontier(cfg, x)

\* every UncondJump and Cmp of a block of c reachable from the entry names
\* only blocks of that block's successor list
JumpsNameSuccessors(c) ==
    \A e \in Entries(c, Reachable(c)) :
        e.inst.op \in {"jmp", "cmp"} => Range(e.inst.targets) \subseteq Range(c.blocks[e.block].succ)

\* BlockCleanup removed block b from c, which gave d: the predecessor p of b
\* has the successor s of b as its only successor and as the target of its
\* terminator, s has p as predecessor, and the phi entries of s keyed by b are
\* keyed by p
RemovedCleanly(c, d, b) ==
    LET p == c.blocks[b].preds[1]
        s == c.blocks[b].succ[1]
        last == d.blocks[p].instructions[Len(d.blocks[p].instructions)]
    IN  /\ d.blocks[p].succ = <<s>>
        /\ Contains(d.blocks[s].preds, p)
        /\ \A k \in DOMAIN d.blocks[s].phi_nodes :
               /\ b \notin PhiKeys(d.blocks[s].phi_nodes[k])
               /\ b \in PhiKeys(c.blocks[s].phi_nodes[k]) => p \in PhiKeys(d.blocks[s].phi_nodes[k])
        /\ d.blocks[p].instructions # <<>> /\ last.op = "jmp" /\ last.targets = <<s>>

\* a removal of BlockCleanup.run: one reachable block fewer, removed cleanly,
\* and jumps that named successors before name successors after
CleanupStepKeepsWellFormed ==
    pc = "cleanup" /\ cfg' # cfg =>
        /\ Cardinality(Reachable(cfg')) < Cardinality(Reachable(cfg))
        /\ \A b \in Reachable(cfg) \ Reachable(cfg') : RemovedCleanly(cfg, cfg', b)
        /\ JumpsNameSuccessors(cfg) => JumpsNameSuccessors(cfg')

\* C30: BlockCleanup.run terminates (every removal leaves fewer reachable
\* blocks) and keeps the CFG well-formed: after it removes a trivial jump-only
\* block b with predecessor p and successor s, p's successor list is [s], s
\* lists p as a predecessor, each phi of s has an entry keyed by p's label
\* instead of b's, and the terminator of p targets s, so that no UncondJump
\* or Cmp of a reachable block names a block outside that block's successors.
C30_CleanupKeepsWellFormed == [][CleanupStepKeepsWellFormed]_vars

====
